---- MODULE Spec2Model ----
(***************************************************************************)
(* Model of the knowledge-metrics-service core:                            *)
(*   app/services/data_loader.py     DataLoaderService (the dataset store) *)
(*   app/services/metrics_service.py MetricsService                        *)
(*   app/services/query_service.py   parsers, QueryExecutor, QueryService  *)
(*   app/core/exceptions.py          exception hierarchy and HTTP handlers *)
(*                                                                         *)
(* All request handlers are coroutines on one event loop, so a handler     *)
(* runs without interruption between two awaits.  The only awaits of the   *)
(* modelled code are the chunk reads of load_data_from_upload; every other *)
(* operation is one action.                                                *)
(*                                                                         *)
(* Units.  A CSV payload is a sequence of lines and one line counts as one *)
(* byte, so len(data) is Len of the sequence.  A calendar date is the      *)
(* integer Ord(y, m, d), which orders dates as the calendar does.  Float   *)
(* columns hold integers in units of 1e-4.                                 *)
(***************************************************************************)
EXTENDS Integers, Sequences, FiniteSets, TLC

VARIABLES
    df,      \* DataLoaderService._df: the stored table, or none
    up,      \* per upload request: the frame of load_data_from_upload
    last     \* outcome of the most recently completed call: its result, and
             \* for a returned DataFrame whether it is the stored object

vars == <<df, up, last>>

-----------------------------------------------------------------------------
(* Bounds *)

\* datasets and requests use the days 1..MaxDay of January 2023
MaxDay == 3
\* max_file_size of load_data_from_upload, in lines (the default is 10 MB)
MaxFileSize == 5
\* chunk_size of load_data_from_upload, in lines (the default is 1 MB)
ChunkSize == 2
\* words of a query text ahead of its date expression
MaxWords == 3

-----------------------------------------------------------------------------
(* Dates *)

Ord(y, m, d) == (y * 12 + (m - 1)) * 31 + d

Day(k) == Ord(2023, 1, k)

\* Python None for an Optional[date]
NoDate == 0

\* dates a request can carry
OptDates == {Day(k) : k \in 1..MaxDay} \cup {NoDate}

-----------------------------------------------------------------------------
(* Records and CSV payloads *)

NoVendor == ""

\* numpy.nan: an empty cell of a float64 column, and the value of a
\* statistic that pandas cannot compute
NaN == -999999999

\* vendor names a request can carry; "Z" is in no payload
VendorNames == {"A", "B", "Z"}

\* the StringDtype order of the vendor column
VendorOrd(v) == CASE v = "A" -> 1 [] v = "B" -> 2 [] v = "Z" -> 3 [] OTHER -> 0

Line(k, d, v, u, x, y, s, f) ==
    [kind |-> k, date |-> d, vendor |-> v, universe |-> u, feature_x |-> x,
     feature_y |-> y, signal_strength |-> s, drawdown_flag |-> f]

Row(d, v, u, x, y, s, f) == Line("row", d, v, u, x, y, s, f)

\* date,vendor,universe,feature_x,feature_y,signal_strength,drawdown_flag
Header == Line("header", NoDate, NoVendor, "", 0, 0, 0, 0)

CsvSample ==
    <<Header,
      Row(Day(2), "A", "Equities", 15000, 25000, 6000, 1),
      Row(Day(1), "B", "FX", 8000, 18000, 4000, 0),
      Row(Day(1), "A", "Equities", 10000, 20000, 5000, 0),
      Row(Day(2), "B", "FX", 9000, 19000, 4500, 0)>>

\* a well-formed payload of n lines
CsvOfLen(n) ==
    <<Header>> \o
    [i \in 1..(n - 1) |->
        <<Row(Day(3), "B", "FX", 9000, 18000, -4000, 1),
          Row(Day(3), "A", "Macro", 20000, 10000, 6000, 0),
          Row(Day(1), "B", "FX", 8000, 18000, 4000, 0),
          Row(Day(2), "A", "Equities", 15000, 25000, 6000, 1),
          Row(Day(1), "A", "Equities", 10000, 20000, 5000, 0),
          Row(Day(2), "B", "FX", 9000, 19000, 4500, 0)>>[((i - 1) % 6) + 1]]

\* a payload of exactly max_file_size
CsvExact == CsvOfLen(MaxFileSize)
\* a payload over max_file_size
CsvLarge == CsvOfLen(MaxFileSize + 2)
\* the header line and nothing else
CsvHeaderOnly == <<Header>>
\* zero bytes
CsvEmpty == <<>>
\* the same columns without the vendor column
CsvNoVendor ==
    <<Line("header_novendor", NoDate, NoVendor, "", 0, 0, 0, 0),
      Row(Day(2), NoVendor, "FX", 9000, 19000, 4500, 1),
      Row(Day(1), NoVendor, "FX", 8000, 18000, 4000, 0)>>
\* bytes that are no CSV of this schema
CsvJunk ==
    <<Line("junk", NoDate, NoVendor, "", 0, 0, 0, 0),
      Line("junk", NoDate, NoVendor, "", 0, 0, 0, 0)>>

Payloads ==
    {CsvSample, CsvExact, CsvHeaderOnly, CsvEmpty, CsvNoVendor, CsvJunk, CsvLarge}

\* further payloads that pd.read_csv parses under the dtype map: two vendors
\* of one record each with the same signal; two vendors whose signals
\* average to zero; a vendor with negative signals and a drawdown_flag
\* that is neither 0 nor 1 (any int64 is taken); and a record whose
\* signal_strength cell is empty (float64 takes it as NaN)
EdgeCases ==
    {<<Header,
       Row(Day(1), "B", "FX", 8000, 18000, 5000, 0),
       Row(Day(1), "A", "Equities", 10000, 20000, 5000, 0)>>,
     <<Header,
       Row(Day(1), "B", "FX", 8000, 18000, 4000, 0),
       Row(Day(2), "B", "FX", 9000, 18000, -4000, 1),
       Row(Day(1), "A", "Equities", 10000, 20000, -6000, 0),
       Row(Day(2), "A", "Equities", 15000, 25000, 6000, 0)>>,
     <<Header,
       Row(Day(2), "B", "FX", 9000, 19000, -3000, 0),
       Row(Day(1), "B", "FX", 8000, 18000, -5000, 3)>>,
     <<Header, Row(Day(1), "A", "Equities", 10000, 20000, NaN, 0)>>}

-----------------------------------------------------------------------------
(* Errors *)

Error(type, code, status, message) ==
    [type |-> type, code |-> code, status |-> status, message |-> message]

NoError == Error("none", "none", 200, "")

VendorNotFoundError ==
    Error("VendorNotFoundError", "VENDOR_NOT_FOUND", 404, "Vendor not found")
NoDataInRangeError ==
    Error("NoDataInRangeError", "VALIDATION_ERROR", 400,
          "No data available in the specified date range")
InvalidDateRangeError ==
    Error("InvalidDateRangeError", "VALIDATION_ERROR", 400, "Invalid date range")
FileTooLargeError ==
    Error("FileTooLargeError", "FILE_TOO_LARGE", 413, "File too large")

\* a builtin ValueError (pandas' EmptyDataError and ParserError subclass it):
\* value_error_handler answers 400 VALIDATION_ERROR with str(exc)
ValueError(message) == Error("ValueError", "VALIDATION_ERROR", 400, message)

\* any other exception: generic_exception_handler answers 500
KeyError(key) == Error("KeyError", "INTERNAL_ERROR", 500, key)

Raised(e) == e.type # "none"

-----------------------------------------------------------------------------
(* Tables *)

NoneDf == [state |-> "none", cols |-> "full", rows |-> <<>>]

Table(cols, rows) == [state |-> "table", cols |-> cols, rows |-> rows]

IsNone(t) == t.state = "none"

\* sort key (vendor, date), ascending
KeyLeq(a, b) ==
    \/ VendorOrd(a.vendor) < VendorOrd(b.vendor)
    \/ VendorOrd(a.vendor) = VendorOrd(b.vendor) /\ a.date <= b.date

RECURSIVE Insert(_, _)
Insert(r, s) ==
    IF s = <<>> THEN <<r>>
    ELSE IF KeyLeq(Head(s), r) THEN <<Head(s)>> \o Insert(r, Tail(s))
    ELSE <<r>> \o s

RECURSIVE SortRows(_)
SortRows(s) ==
    IF s = <<>> THEN <<>>
    ELSE Insert(s[Len(s)], SortRows(SubSeq(s, 1, Len(s) - 1)))

\* Series.unique(): distinct values in order of first appearance
RECURSIVE Unique(_)
Unique(s) ==
    IF s = <<>> THEN <<>>
    ELSE LET init == Unique(SubSeq(s, 1, Len(s) - 1))
             x == s[Len(s)]
         IN IF \E i \in 1..Len(init) : init[i] = x THEN init ELSE Append(init, x)

\* df[name]: one column of the rows
Column(s, name) == [i \in 1..Len(s) |-> s[i][name]]

Range(s) == {s[i] : i \in 1..Len(s)}

SetMin(S) == CHOOSE x \in S : \A y \in S : x <= y
SetMax(S) == CHOOSE x \in S : \A y \in S : x >= y

\* pd.read_csv(..., parse_dates=["date"], dtype={...}): dtype entries of
\* absent columns are ignored, an absent parse_dates column raises
ReadCsv(data) ==
    IF data = <<>>
    THEN [error |-> ValueError("No columns to parse from file"), table |-> NoneDf]
    ELSE IF Head(data).kind \notin {"header", "header_novendor"}
    THEN [error |-> ValueError("Missing column provided to 'parse_dates': 'date'"),
          table |-> NoneDf]
    ELSE IF \E i \in 2..Len(data) : data[i].kind # "row"
    THEN [error |-> ValueError("could not convert string to float"),
          table |-> NoneDf]
    ELSE [error |-> NoError,
          table |-> Table(IF Head(data).kind = "header" THEN "full" ELSE "novendor",
                          Tail(data))]

\* df.sort_values(["vendor", "date"]).reset_index(drop=True)
SortValues(t) ==
    IF t.cols # "full"
    THEN [error |-> KeyError("vendor"), table |-> t]
    ELSE [error |-> NoError, table |-> Table(t.cols, SortRows(t.rows))]

-----------------------------------------------------------------------------
(* DataLoaderService.  Every method is an operator from the stored table d *)
(* (and, for the lazy load, the CSV file at csv_path) to the stored table  *)
(* after the call, the error raised, and the value returned.               *)

Null == <<>>

Ret(d, e, v) == [df |-> d, error |-> e, value |-> v]

\* _load_data, once pd.read_csv returned r: sort, then log the summary
\* (date_min.date() is NaT.date() on a table without rows, which raises)
LoadParsed(r) ==
    LET s == SortValues(r.table)
    IN IF Raised(r.error) THEN [error |-> r.error, table |-> NoneDf]
       ELSE IF Raised(s.error) THEN [error |-> s.error, table |-> NoneDf]
       ELSE IF s.table.rows = <<>>
       THEN [error |-> ValueError("NaTType does not support date"), table |-> NoneDf]
       ELSE [error |-> NoError, table |-> s.table]

LoadData(csv) == LoadParsed(ReadCsv(csv))

\* if self._df is None: self._df = self._load_data()
\* (nothing is assigned when the load raises)
EnsureLoaded(d, csv) ==
    IF ~IsNone(d) THEN [error |-> NoError, table |-> d]
    ELSE IF Raised(LoadData(csv).error)
    THEN [error |-> LoadData(csv).error, table |-> d]
    ELSE LoadData(csv)

\* variant of Copy: the stored object itself is handed out
CopyAliased(rows) == [rows |-> rows, shared |-> TRUE]

\* self._df.copy(): a new object holding the same rows
Copy(rows) == [rows |-> rows, shared |-> FALSE]

\* Each method below takes l, the outcome of the lazy load its first two
\* lines perform: EnsureLoaded(df, <file at csv_path>).

Dataframe(l) ==
    IF Raised(l.error) THEN Ret(l.table, l.error, Null)
    ELSE Ret(l.table, NoError, l.table.rows)

GetVendors(l) ==
    IF Raised(l.error) THEN Ret(l.table, l.error, Null)
    ELSE IF l.table.cols # "full" THEN Ret(l.table, KeyError("vendor"), Null)
    ELSE Ret(l.table, NoError, Unique(Column(l.table.rows, "vendor")))

GetUniverses(l) ==
    IF Raised(l.error) THEN Ret(l.table, l.error, Null)
    ELSE Ret(l.table, NoError, Unique(Column(l.table.rows, "universe")))

GetDateRange(l) ==
    LET dates == Range(Column(l.table.rows, "date"))
    IN IF Raised(l.error) THEN Ret(l.table, l.error, Null)
       ELSE IF l.table.rows = <<>>
       THEN Ret(l.table, ValueError("NaTType does not support date"), Null)
       ELSE Ret(l.table, NoError, <<SetMin(dates), SetMax(dates)>>)

\* variant of InRange: the end bound excluded
InRangeEndExcluded(r, start, end) ==
    /\ (start # NoDate => r.date >= start)
    /\ (end # NoDate => r.date < end)

\* if start_date: df = df[df["date"] >= start]; if end_date: ... <= end
InRange(r, start, end) ==
    /\ (start # NoDate => r.date >= start)
    /\ (end # NoDate => r.date <= end)

GetVendorData(l, vendor, start, end) ==
    LET own == SelectSeq(l.table.rows, LAMBDA r : r.vendor = vendor)
        kept == SelectSeq(own, LAMBDA r : InRange(r, start, end))
    IN IF Raised(l.error) THEN Ret(l.table, l.error, Null)
       ELSE IF l.table.cols # "full" THEN Ret(l.table, KeyError("vendor"), Null)
       ELSE IF own = <<>> THEN Ret(l.table, VendorNotFoundError, Null)
       ELSE IF kept = <<>> THEN Ret(l.table, NoDataInRangeError, Null)
       ELSE Ret(l.table, NoError, kept)

GetDataByUniverse(l, universe) ==
    IF Raised(l.error) THEN Ret(l.table, l.error, Null)
    ELSE Ret(l.table, NoError,
             SelectSeq(l.table.rows, LAMBDA r : r.universe = universe))

GetDataByDateRange(l, start, end) ==
    LET kept == SelectSeq(l.table.rows, LAMBDA r : InRange(r, start, end))
    IN IF Raised(l.error) THEN Ret(l.table, l.error, Null)
       ELSE IF kept = <<>> THEN Ret(l.table, NoDataInRangeError, Null)
       ELSE Ret(l.table, NoError, kept)

\* variant of GetDrawdownPeriods: a vendor without rows is an error, as in
\* get_vendor_data
GetDrawdownPeriodsStrict(l, vendor) ==
    LET flagged == SelectSeq(l.table.rows, LAMBDA r : r.drawdown_flag = 1)
    IN IF Raised(l.error) THEN Ret(l.table, l.error, Null)
       ELSE IF vendor = NoVendor THEN Ret(l.table, NoError, flagged)
       ELSE IF l.table.cols # "full" THEN Ret(l.table, KeyError("vendor"), Null)
       ELSE IF \A i \in 1..Len(l.table.rows) : l.table.rows[i].vendor # vendor
       THEN Ret(l.table, VendorNotFoundError, Null)
       ELSE Ret(l.table, NoError, SelectSeq(flagged, LAMBDA r : r.vendor = vendor))

\* vendor = NoVendor is None (and "" is falsy): no vendor filter
GetDrawdownPeriods(l, vendor) ==
    LET flagged == SelectSeq(l.table.rows, LAMBDA r : r.drawdown_flag = 1)
    IN IF Raised(l.error) THEN Ret(l.table, l.error, Null)
       ELSE IF vendor = NoVendor THEN Ret(l.table, NoError, flagged)
       ELSE IF l.table.cols # "full" THEN Ret(l.table, KeyError("vendor"), Null)
       ELSE Ret(l.table, NoError, SelectSeq(flagged, LAMBDA r : r.vendor = vendor))

\* reload: self._df = None; self._df = self._load_data()
Reload(d, csv) ==
    IF Raised(LoadData(csv).error) THEN Ret(NoneDf, LoadData(csv).error, Null)
    ELSE Ret(LoadData(csv).table, NoError, Null)

\* load_data_from_bytes, once self._df = pd.read_csv(...) returned r:
\* self._df = self._df.sort_values(...).reset_index(drop=True)
StoreParsed(d, r) ==
    LET s == SortValues(r.table)
    IN IF Raised(r.error) THEN Ret(d, r.error, Null)
       ELSE IF Raised(s.error) THEN Ret(r.table, s.error, Null)
       ELSE Ret(s.table, NoError, Null)

LoadDataFromBytes(d, data) == StoreParsed(d, ReadCsv(data))

-----------------------------------------------------------------------------
(* MetricsService.  Results also carry the data-loader methods called.     *)

MRet(d, e, v, calls) == [df |-> d, error |-> e, value |-> v, calls |-> calls]

RECURSIVE SumSeq(_)
SumSeq(s) == IF s = <<>> THEN 0 ELSE Head(s) + SumSeq(Tail(s))

\* round(a / b) to the nearest integer, halves to even (b > 0)
RoundDiv(a, b) ==
    LET q == a \div b
        r == a % b
    IN IF 2 * r < b THEN q
       ELSE IF 2 * r > b THEN q + 1
       ELSE IF q % 2 = 0 THEN q ELSE q + 1

\* skipna=True: the values of a column that are present
DropNa(col) == SelectSeq(col, LAMBDA x : x # NaN)

\* round(float(col.mean()), 4)
Mean4(col) ==
    IF DropNa(col) = <<>> THEN NaN
    ELSE RoundDiv(SumSeq(DropNa(col)), Len(DropNa(col)))

\* round(sum(drawdown_flag) / len, 4), in units of 1e-4
Rate4(rows) == RoundDiv(10000 * SumSeq(Column(rows, "drawdown_flag")), Len(rows))

RECURSIVE Gcd(_, _)
Gcd(a, b) == IF b = 0 THEN a ELSE Gcd(b, a % b)

\* a unit that every value of a column is a multiple of (0 for a column of
\* zeros); standard deviation scales with the unit, correlation and the
\* coefficient of variation do not depend on it
RECURSIVE Tick(_)
Tick(col) ==
    IF col = <<>> THEN 0
    ELSE Gcd(IF Head(col) < 0 THEN -Head(col) ELSE Head(col), Tick(Tail(col)))

\* n * sum(x * y) - sum(x) * sum(y) for columns in units of gx and gy:
\* n * (n - 1) times the sample covariance, the sample variance for y = x
Cross(x, gx, y, gy) ==
    Len(x) * SumSeq([i \in 1..Len(x) |-> (x[i] \div gx) * (y[i] \div gy)])
        - SumSeq([i \in 1..Len(x) |-> x[i] \div gx])
            * SumSeq([i \in 1..Len(y) |-> y[i] \div gy])

\* a / c <= d / b for a, d >= 0 and c, b > 0, compared as continued
\* fractions so that no product is formed
RECURSIVE FracLeq(_, _, _, _)
FracLeq(a, c, d, b) ==
    IF a \div c # d \div b THEN a \div c < d \div b
    ELSE IF a % c = 0 THEN TRUE
    ELSE IF d % b = 0 THEN FALSE
    ELSE FracLeq(b, d % b, c, a % c)

\* round(sqrt((a1 * a2) / (b1 * b2))) for a1, a2, b1, b2 > 0: the least k of
\* lo..hi with (2k + 1)^2 * b1 * b2 > 4 * a1 * a2
RECURSIVE RoundRoot(_, _, _, _, _, _)
RoundRoot(lo, hi, a1, a2, b1, b2) ==
    IF lo = hi THEN lo
    ELSE IF FracLeq((2 * ((lo + hi) \div 2) + 1) * b1, 2 * a1,
                    2 * a2, (2 * ((lo + hi) \div 2) + 1) * b2)
    THEN RoundRoot((lo + hi) \div 2 + 1, hi, a1, a2, b1, b2)
    ELSE RoundRoot(lo, (lo + hi) \div 2, a1, a2, b1, b2)

\* round(float(col.std()), 4): the sample standard deviation (ddof=1) of
\* the values present, NaN when fewer than two are present
Std4(col) ==
    LET v == DropNa(col)
        g == SetMax({1, Tick(v)})
    IN IF Len(v) <= 1 THEN NaN
       ELSE IF Cross(v, g, v, g) = 0 THEN 0
       ELSE RoundRoot(0, 131071, g, g * Cross(v, g, v, g), Len(v), Len(v) - 1)

\* signal_volatility of get_vendor_metrics, an Optional[float]: <<>> is
\* None.  signal_mean is the mean of the values present and signal_std is
\* 0.0 for a slice of one row, else col.std()
\* variant of Volatility: the deviation is divided by the mean itself
VolatilitySigned(col) ==
    LET v == DropNa(col)
        g == SetMax({1, Tick(v)})
        sum == SumSeq([i \in 1..Len(v) |-> v[i] \div g])
    IN IF v = <<>> \/ sum = 0 THEN <<>>
       ELSE IF Len(col) <= 1 THEN <<0>>
       ELSE IF Len(v) <= 1 THEN <<NaN>>
       ELSE IF Cross(v, g, v, g) = 0 THEN <<0>>
       ELSE <<(IF sum < 0 THEN -1 ELSE 1)
              * RoundRoot(0, 4194303, 10000 * Len(v), 10000 * Cross(v, g, v, g),
                          (Len(v) - 1) * (IF sum < 0 THEN -sum ELSE sum),
                          IF sum < 0 THEN -sum ELSE sum)>>

Volatility(col) ==
    LET v == DropNa(col)
        g == SetMax({1, Tick(v)})
        sum == SumSeq([i \in 1..Len(v) |-> v[i] \div g])
    IN IF v = <<>> \/ sum = 0 THEN <<>>
       ELSE IF Len(col) <= 1 THEN <<0>>
       ELSE IF Len(v) <= 1 THEN <<NaN>>
       ELSE IF Cross(v, g, v, g) = 0 THEN <<0>>
       ELSE <<RoundRoot(0, 4194303, 10000 * Len(v), 10000 * Cross(v, g, v, g),
                        (Len(v) - 1) * (IF sum < 0 THEN -sum ELSE sum),
                        IF sum < 0 THEN -sum ELSE sum)>>

\* feature_xy_correlation of get_vendor_metrics, an Optional[float]: the
\* Pearson correlation of the rows with both features present, None for a
\* slice of one row and when Series.corr gives NaN
Correlation(rows) ==
    LET both == SelectSeq(rows, LAMBDA r : r.feature_x # NaN /\ r.feature_y # NaN)
        x == Column(both, "feature_x")
        y == Column(both, "feature_y")
        gx == SetMax({1, Tick(x)})
        gy == SetMax({1, Tick(y)})
        c == Cross(x, gx, y, gy)
    IN IF Len(rows) <= 1 \/ Len(both) <= 1 THEN <<>>
       ELSE IF Cross(x, gx, x, gx) = 0 \/ Cross(y, gy, y, gy) = 0 THEN <<>>
       ELSE IF c = 0 THEN <<0>>
       ELSE IF c > 0
       THEN <<RoundRoot(0, 10000, 10000 * c, 10000 * c,
                        Cross(x, gx, x, gx), Cross(y, gy, y, gy))>>
       ELSE <<-RoundRoot(0, 10000, 10000 * (-c), 10000 * (-c),
                         Cross(x, gx, x, gx), Cross(y, gy, y, gy))>>

\* float(df["signal_strength"].mean()) if len(df) > 0 else None, rounded
OptMean4(rows) ==
    IF rows = <<>> THEN <<>> ELSE <<Mean4(Column(rows, "signal_strength"))>>

VendorMetrics(vendor, rows) ==
    [vendor |-> vendor,
     universes |-> Unique(Column(rows, "universe")),
     record_count |-> Len(rows),
     date_range |-> <<SetMin(Range(Column(rows, "date"))),
                      SetMax(Range(Column(rows, "date")))>>,
     feature_x_mean |-> Mean4(Column(rows, "feature_x")),
     feature_x_std |->
        IF Len(rows) > 1 THEN Std4(Column(rows, "feature_x")) ELSE 0,
     feature_y_mean |-> Mean4(Column(rows, "feature_y")),
     feature_y_std |->
        IF Len(rows) > 1 THEN Std4(Column(rows, "feature_y")) ELSE 0,
     signal_strength_mean |-> Mean4(Column(rows, "signal_strength")),
     signal_strength_std |->
        IF Len(rows) > 1 THEN Std4(Column(rows, "signal_strength")) ELSE 0,
     signal_strength_min |->
        IF DropNa(Column(rows, "signal_strength")) = <<>> THEN NaN
        ELSE SetMin(Range(DropNa(Column(rows, "signal_strength")))),
     signal_strength_max |->
        IF DropNa(Column(rows, "signal_strength")) = <<>> THEN NaN
        ELSE SetMax(Range(DropNa(Column(rows, "signal_strength")))),
     drawdown_count |-> SumSeq(Column(rows, "drawdown_flag")),
     drawdown_rate |-> Rate4(rows),
     feature_xy_correlation |-> Correlation(rows),
     signal_volatility |-> Volatility(Column(rows, "signal_strength")),
     avg_signal_during_drawdown |->
        OptMean4(SelectSeq(rows, LAMBDA r : r.drawdown_flag = 1)),
     avg_signal_outside_drawdown |->
        OptMean4(SelectSeq(rows, LAMBDA r : r.drawdown_flag = 0))]

\* The statistics are a function of the slice alone.  The slices that
\* get_vendor_data can return are those of the payloads that load; the
\* statistics are computed once for each of them
Slices ==
    {r.value : r \in {GetVendorData(LoadData(p), v, s, e) :
                        p \in Payloads \cup EdgeCases, v \in VendorNames,
                        s \in OptDates, e \in OptDates}} \ {Null}

VendorMetricsOf == [rows \in Slices |-> VendorMetrics(rows[1].vendor, rows)]

\* if start_date and end_date and start_date >= end_date: raise
InvalidRange(start, end) == start # NoDate /\ end # NoDate /\ start >= end

\* get_vendor_metrics from df = self._data_loader.get_vendor_data(...) on
VendorMetricsFrom(r, vendor) ==
    IF Raised(r.error) THEN MRet(r.df, r.error, Null, <<"get_vendor_data">>)
    ELSE IF r.value = <<>>
    THEN MRet(r.df, VendorNotFoundError, Null, <<"get_vendor_data", "get_vendors">>)
    ELSE MRet(r.df, NoError, [VendorMetricsOf[r.value] EXCEPT !.vendor = vendor],
              <<"get_vendor_data">>)

\* variant of GetVendorMetrics: the dates are validated after the data is fetched
GetVendorMetricsLateCheck(d, csv, vendor, start, end) ==
    IF InvalidRange(start, end)
    THEN MRet(GetVendorData(EnsureLoaded(d, csv), vendor, start, end).df,
              InvalidDateRangeError,
              Null, <<"get_vendor_data">>)
    ELSE VendorMetricsFrom(GetVendorData(EnsureLoaded(d, csv), vendor, start, end),
                           vendor)

GetVendorMetrics(d, csv, vendor, start, end) ==
    IF InvalidRange(start, end) THEN MRet(d, InvalidDateRangeError, Null, <<>>)
    ELSE VendorMetricsFrom(GetVendorData(EnsureLoaded(d, csv), vendor, start, end),
                           vendor)

PeriodMetrics(start, end, rows, byVendor) ==
    [start_date |-> start,
     end_date |-> end,
     record_count |-> Len(rows),
     vendor_count |-> Cardinality(DOMAIN byVendor),
     avg_signal_strength |->
        IF rows = <<>> THEN 0 ELSE Mean4(Column(rows, "signal_strength")),
     signal_strength_std |->
        IF rows = <<>> THEN 0 ELSE Std4(Column(rows, "signal_strength")),
     total_drawdown_events |-> SumSeq(Column(rows, "drawdown_flag")),
     vendor_avg_signals |->
        [v \in DOMAIN byVendor |-> Mean4(Column(byVendor[v], "signal_strength"))],
     vendor_drawdown_rates |-> [v \in DOMAIN byVendor |-> Rate4(byVendor[v])]]

\* df.groupby("vendor")
GroupByVendor(rows) ==
    [v \in Range(Column(rows, "vendor")) |->
        SelectSeq(rows, LAMBDA r : r.vendor = v)]

\* date.min and date.max
DateMin == Ord(1, 1, 1)
DateMax == Ord(9999, 12, 31)

\* the value get_period_metrics returns for a slice
PeriodOf(start, end, rows) ==
    IF rows = <<>>
    THEN PeriodMetrics(IF start # NoDate THEN start ELSE DateMin,
                       IF end # NoDate THEN end ELSE DateMax,
                       <<>>, GroupByVendor(<<>>))
    ELSE PeriodMetrics(SetMin(Range(Column(rows, "date"))),
                       SetMax(Range(Column(rows, "date"))),
                       rows, GroupByVendor(rows))

\* get_period_metrics from df = self._data_loader.get_data_by_date_range(...) on
PeriodMetricsFrom(r, start, end) ==
    IF Raised(r.error)
    THEN MRet(r.df, r.error, Null, <<"get_data_by_date_range">>)
    ELSE IF r.value # <<>> /\ r.df.cols # "full"
    THEN MRet(r.df, KeyError("vendor"), Null, <<"get_data_by_date_range">>)
    ELSE MRet(r.df, NoError, PeriodOf(start, end, r.value),
              <<"get_data_by_date_range">>)

GetPeriodMetrics(d, csv, start, end) ==
    PeriodMetricsFrom(GetDataByDateRange(EnsureLoaded(d, csv), start, end),
                      start, end)

\* variant of DrawdownAnalysis: by_vendor counts every row for every vendor
DrawdownAnalysisUngrouped(rows) ==
    IF rows = <<>>
    THEN [keys |-> {"total_drawdown_events", "vendors_affected",
                    "avg_signal_during_drawdown", "drawdown_dates"},
          total_drawdown_events |-> 0,
          vendors_affected |-> <<>>,
          avg_signal_during_drawdown |-> Null,
          drawdown_dates |-> <<>>,
          by_vendor |-> GroupByVendor(<<>>)]
    ELSE [keys |-> {"total_drawdown_events", "vendors_affected",
                    "avg_signal_during_drawdown", "drawdown_dates", "by_vendor"},
          total_drawdown_events |-> Len(rows),
          vendors_affected |-> Unique(Column(rows, "vendor")),
          avg_signal_during_drawdown |-> <<Mean4(Column(rows, "signal_strength"))>>,
          drawdown_dates |-> Column(rows, "date"),
          by_vendor |-> [v \in Range(Column(rows, "vendor")) |-> Len(rows)]]

\* variant of DrawdownAnalysis: the empty result carries a by_vendor key
DrawdownAnalysisWithBreakdown(rows) ==
    IF rows = <<>>
    THEN [keys |-> {"total_drawdown_events", "vendors_affected",
                    "avg_signal_during_drawdown", "drawdown_dates", "by_vendor"},
          total_drawdown_events |-> 0,
          vendors_affected |-> <<>>,
          avg_signal_during_drawdown |-> Null,
          drawdown_dates |-> <<>>,
          by_vendor |-> GroupByVendor(<<>>)]
    ELSE [keys |-> {"total_drawdown_events", "vendors_affected",
                    "avg_signal_during_drawdown", "drawdown_dates", "by_vendor"},
          total_drawdown_events |-> Len(rows),
          vendors_affected |-> Unique(Column(rows, "vendor")),
          avg_signal_during_drawdown |-> <<Mean4(Column(rows, "signal_strength"))>>,
          drawdown_dates |-> Column(rows, "date"),
          by_vendor |-> [v \in Range(Column(rows, "vendor")) |->
                            Len(GroupByVendor(rows)[v])]]

DrawdownAnalysis(rows) ==
    IF rows = <<>>
    THEN [keys |-> {"total_drawdown_events", "vendors_affected",
                    "avg_signal_during_drawdown", "drawdown_dates"},
          total_drawdown_events |-> 0,
          vendors_affected |-> <<>>,
          avg_signal_during_drawdown |-> Null,
          drawdown_dates |-> <<>>,
          by_vendor |-> GroupByVendor(<<>>)]
    ELSE [keys |-> {"total_drawdown_events", "vendors_affected",
                    "avg_signal_during_drawdown", "drawdown_dates", "by_vendor"},
          total_drawdown_events |-> Len(rows),
          vendors_affected |-> Unique(Column(rows, "vendor")),
          avg_signal_during_drawdown |-> <<Mean4(Column(rows, "signal_strength"))>>,
          drawdown_dates |-> Column(rows, "date"),
          by_vendor |-> [v \in Range(Column(rows, "vendor")) |->
                            Len(GroupByVendor(rows)[v])]]

\* get_drawdown_analysis from df = self._data_loader.get_drawdown_periods(vendor) on
DrawdownAnalysisFrom(r) ==
    IF Raised(r.error) THEN MRet(r.df, r.error, Null, <<"get_drawdown_periods">>)
    ELSE IF r.value # <<>> /\ r.df.cols # "full"
    THEN MRet(r.df, KeyError("vendor"), Null, <<"get_drawdown_periods">>)
    ELSE MRet(r.df, NoError, DrawdownAnalysis(r.value), <<"get_drawdown_periods">>)

GetDrawdownAnalysis(d, csv, vendor) ==
    DrawdownAnalysisFrom(GetDrawdownPeriods(EnsureLoaded(d, csv), vendor))

\* variant of Better: the two orders are exchanged
BetterReversed(order, a, b) == IF order = "max" THEN a < b ELSE a > b

\* a beats b in the order "max" (also reverse=True) or "min"
Better(order, a, b) == IF order = "max" THEN a > b ELSE a < b

\* variant of FirstBest: among equal extremes the last vendor wins
LastBest(vendors, score, order) ==
    vendors[CHOOSE i \in 1..Len(vendors) :
        /\ \A j \in 1..Len(vendors) :
              ~Better(order, score[vendors[j]], score[vendors[i]])
        /\ \A j \in (i + 1)..Len(vendors) :
              Better(order, score[vendors[i]], score[vendors[j]])]

\* max(scores, key=...) / min(scores, key=...): the first vendor, in the
\* order of vendors, whose score no other vendor beats
FirstBest(vendors, score, order) ==
    vendors[CHOOSE i \in 1..Len(vendors) :
        /\ \A j \in 1..Len(vendors) :
              ~Better(order, score[vendors[j]], score[vendors[i]])
        /\ \A j \in 1..(i - 1) :
              Better(order, score[vendors[i]], score[vendors[j]])]

\* variant of RankBy: vendors with equal scores share a rank
RankByShared(vendors, score, order) ==
    [v \in Range(vendors) |->
        1 + Cardinality({j \in 1..Len(vendors) :
                Better(order, score[vendors[j]], score[v])})]

\* variant of RankBy: among equal scores the later vendor comes first
RankByLaterFirst(vendors, score, order) ==
    [v \in Range(vendors) |->
        LET i == CHOOSE k \in 1..Len(vendors) : vendors[k] = v
        IN 1 + Cardinality({j \in 1..Len(vendors) :
                \/ Better(order, score[vendors[j]], score[v])
                \/ score[vendors[j]] = score[v] /\ j > i})]

\* {v: rank for rank, (v, _) in enumerate(sorted(items, key=...), 1)}: sorted
\* is stable, so equal scores keep the order of vendors
RankBy(vendors, score, order) ==
    [v \in Range(vendors) |->
        LET i == CHOOSE k \in 1..Len(vendors) : vendors[k] = v
        IN 1 + Cardinality({j \in 1..Len(vendors) :
                \/ Better(order, score[vendors[j]], score[v])
                \/ score[vendors[j]] = score[v] /\ j < i})]

\* variant of ComparativeMetrics: without a volatility, the last vendor
ComparativeMetricsLastVendor(t, vendors) ==
    LET vendor_metrics ==
            [v \in Range(vendors) |->
                VendorMetricsOf[SelectSeq(t.rows, LAMBDA r : r.vendor = v)]]
        signal_scores ==
            [v \in Range(vendors) |-> vendor_metrics[v].signal_strength_mean]
        drawdown_rates == [v \in Range(vendors) |-> vendor_metrics[v].drawdown_rate]
        rated == SelectSeq(vendors, LAMBDA v :
                    vendor_metrics[v].signal_volatility # <<>>)
        volatilities ==
            [v \in Range(rated) |-> vendor_metrics[v].signal_volatility[1]]
    IN [vendors |-> vendors,
        best_avg_signal |-> FirstBest(vendors, signal_scores, "max"),
        lowest_drawdown_rate |-> FirstBest(vendors, drawdown_rates, "min"),
        highest_signal_volatility |->
            IF rated # <<>> THEN FirstBest(rated, volatilities, "max")
            ELSE vendors[Len(vendors)],
        ranking_by_avg_signal |-> RankBy(vendors, signal_scores, "max"),
        ranking_by_stability |-> RankBy(rated, volatilities, "min")]

ComparativeMetrics(t, vendors) ==
    LET vendor_metrics ==
            [v \in Range(vendors) |->
                VendorMetricsOf[SelectSeq(t.rows, LAMBDA r : r.vendor = v)]]
        signal_scores ==
            [v \in Range(vendors) |-> vendor_metrics[v].signal_strength_mean]
        drawdown_rates == [v \in Range(vendors) |-> vendor_metrics[v].drawdown_rate]
        \* the vendors whose signal_volatility is not None, and their values
        rated == SelectSeq(vendors, LAMBDA v :
                    vendor_metrics[v].signal_volatility # <<>>)
        volatilities ==
            [v \in Range(rated) |-> vendor_metrics[v].signal_volatility[1]]
    IN [vendors |-> vendors,
        best_avg_signal |-> FirstBest(vendors, signal_scores, "max"),
        lowest_drawdown_rate |-> FirstBest(vendors, drawdown_rates, "min"),
        highest_signal_volatility |->
            IF rated # <<>> THEN FirstBest(rated, volatilities, "max")
            ELSE vendors[1],
        ranking_by_avg_signal |-> RankBy(vendors, signal_scores, "max"),
        ranking_by_stability |-> RankBy(rated, volatilities, "min")]

\* one get_vendor_data call per vendor of get_vendors()
CompareCalls(vendors) ==
    <<"get_vendors">> \o [i \in 1..Len(vendors) |-> "get_vendor_data"]

\* get_comparative_metrics from vendors = self._data_loader.get_vendors() on
ComparativeMetricsFrom(r) ==
    IF Raised(r.error) THEN MRet(r.df, r.error, Null, <<"get_vendors">>)
    ELSE IF r.value = <<>>
    THEN MRet(r.df, ValueError("max() arg is an empty sequence"), Null,
              <<"get_vendors">>)
    ELSE MRet(r.df, NoError, ComparativeMetrics(r.df, r.value),
              CompareCalls(r.value))

GetComparativeMetrics(d, csv) ==
    ComparativeMetricsFrom(GetVendors(EnsureLoaded(d, csv)))

-----------------------------------------------------------------------------
(* Query layer.  A query text is its sequence of lower-cased words; a word *)
(* is a plain word, a YYYY-MM-DD group of digits, or a four-digit number.  *)

Word(w) == [t |-> "word", w |-> w, y |-> 0, m |-> 0, d |-> 0]
Iso(y, m, d) == [t |-> "iso", w |-> "", y |-> y, m |-> m, d |-> d]
Num4(y) == [t |-> "num4", w |-> "", y |-> y, m |-> 0, d |-> 0]

QueryIntent ==
    [VENDOR_METRICS |-> "vendor_metrics", PERIOD_METRICS |-> "period_metrics",
     COMPARE_VENDORS |-> "compare_vendors",
     DRAWDOWN_ANALYSIS |-> "drawdown_analysis", LIST_VENDORS |-> "list_vendors",
     UNKNOWN |-> "unknown"]

ParsedQuery(intent, vendors, start, end, raw) ==
    [intent |-> intent, vendors |-> vendors, start_date |-> start,
     end_date |-> end, raw_query |-> raw]

QueryResult(intent, data, success, error) ==
    [intent |-> intent, data |-> data, success |-> success, error |-> error]

MONTHS ==
    [january |-> 1, february |-> 2, march |-> 3, april |-> 4, may |-> 5,
     june |-> 6, july |-> 7, august |-> 8, september |-> 9, october |-> 10,
     november |-> 11, december |-> 12]

MONTH_DAYS == <<31, 28, 31, 30, 31, 30, 31, 31, 30, 31, 30, 31>>

IsLeap(y) == y % 4 = 0 /\ (y % 100 # 0 \/ y % 400 = 0)

DaysInMonth(y, m) == IF m = 2 /\ IsLeap(y) THEN 29 ELSE MONTH_DAYS[m]

\* what datetime.date(y, m, d) and date.fromisoformat accept
ValidDate(y, m, d) ==
    /\ y \in 1..9999
    /\ m \in 1..12
    /\ d >= 1
    /\ d <= DaysInMonth(y, m)

HasWord(q, i, ws) == q[i].t = "word" /\ q[i].w \in ws

AnyWord(q, ws) == \E i \in 1..Len(q) : HasWord(q, i, ws)

\* \b(first)\b.*\b(second)\b
WordThenWord(q, first, second) ==
    \E i \in 1..Len(q) : \E j \in (i + 1)..Len(q) :
        HasWord(q, i, first) /\ HasWord(q, j, second)

\* \b(january|...|december)\b.*\d{4}
MonthThenDigits(q) ==
    \E i \in 1..Len(q) : \E j \in (i + 1)..Len(q) :
        HasWord(q, i, DOMAIN MONTHS) /\ q[j].t \in {"iso", "num4"}

\* \b(period|time\s*range|from|between)\b.*\b(to|and)\b
PeriodWords(q) ==
    \E i \in 1..Len(q) : \E j \in (i + 1)..Len(q) :
        /\ HasWord(q, j, {"to", "and"})
        /\ \/ HasWord(q, i, {"period", "timerange", "from", "between"})
           \/ /\ HasWord(q, i, {"time"})
              /\ HasWord(q, i + 1, {"range"})
              /\ j > i + 1

\* variant of IntentPatterns: the listing rules ahead of the comparison rules
IntentPatternsListFirst(q) ==
    << <<WordThenWord(q, {"list", "show", "what"}, {"vendor", "vendors"}),
         QueryIntent.LIST_VENDORS>>,
       <<WordThenWord(q, {"vendor", "vendors"}, {"available", "list"}),
         QueryIntent.LIST_VENDORS>>,
       <<AnyWord(q, {"compare", "rank", "ranking", "best", "worst", "top", "bottom"}),
         QueryIntent.COMPARE_VENDORS>>,
       <<WordThenWord(q, {"which"}, {"better", "best", "worst"}),
         QueryIntent.COMPARE_VENDORS>>,
       <<AnyWord(q, {"drawdown", "stress", "crisis"}), QueryIntent.DRAWDOWN_ANALYSIS>>,
       <<MonthThenDigits(q), QueryIntent.PERIOD_METRICS>>,
       <<\E i \in 1..Len(q) : q[i].t = "iso", QueryIntent.PERIOD_METRICS>>,
       <<PeriodWords(q), QueryIntent.PERIOD_METRICS>>,
       <<AnyWord(q, {"metric", "metrics", "signal", "performance", "stat", "stats",
                     "statistic", "statistics"}),
         QueryIntent.VENDOR_METRICS>> >>

\* variant of IntentPatterns: the vendor-metrics rule ahead of the period rules
IntentPatternsMetricsFirst(q) ==
    << <<AnyWord(q, {"compare", "rank", "ranking", "best", "worst", "top", "bottom"}),
         QueryIntent.COMPARE_VENDORS>>,
       <<WordThenWord(q, {"which"}, {"better", "best", "worst"}),
         QueryIntent.COMPARE_VENDORS>>,
       <<WordThenWord(q, {"list", "show", "what"}, {"vendor", "vendors"}),
         QueryIntent.LIST_VENDORS>>,
       <<WordThenWord(q, {"vendor", "vendors"}, {"available", "list"}),
         QueryIntent.LIST_VENDORS>>,
       <<AnyWord(q, {"drawdown", "stress", "crisis"}), QueryIntent.DRAWDOWN_ANALYSIS>>,
       <<AnyWord(q, {"metric", "metrics", "signal", "performance", "stat", "stats",
                     "statistic", "statistics"}),
         QueryIntent.VENDOR_METRICS>>,
       <<MonthThenDigits(q), QueryIntent.PERIOD_METRICS>>,
       <<\E i \in 1..Len(q) : q[i].t = "iso", QueryIntent.PERIOD_METRICS>>,
       <<PeriodWords(q), QueryIntent.PERIOD_METRICS>> >>

\* INTENT_PATTERNS, in order, as <<matches, intent>>
IntentPatterns(q) ==
    << <<AnyWord(q, {"compare", "rank", "ranking", "best", "worst", "top", "bottom"}),
         QueryIntent.COMPARE_VENDORS>>,
       <<WordThenWord(q, {"which"}, {"better", "best", "worst"}),
         QueryIntent.COMPARE_VENDORS>>,
       <<WordThenWord(q, {"list", "show", "what"}, {"vendor", "vendors"}),
         QueryIntent.LIST_VENDORS>>,
       <<WordThenWord(q, {"vendor", "vendors"}, {"available", "list"}),
         QueryIntent.LIST_VENDORS>>,
       <<AnyWord(q, {"drawdown", "stress", "crisis"}), QueryIntent.DRAWDOWN_ANALYSIS>>,
       <<MonthThenDigits(q), QueryIntent.PERIOD_METRICS>>,
       <<\E i \in 1..Len(q) : q[i].t = "iso", QueryIntent.PERIOD_METRICS>>,
       <<PeriodWords(q), QueryIntent.PERIOD_METRICS>>,
       <<AnyWord(q, {"metric", "metrics", "signal", "performance", "stat", "stats",
                     "statistic", "statistics"}),
         QueryIntent.VENDOR_METRICS>> >>

\* _extract_intent: the intent of the first pattern that matches
ExtractIntent(q) ==
    LET ps == IntentPatterns(q)
        hit == {i \in 1..Len(ps) : ps[i][1]}
    IN IF hit = {} THEN QueryIntent.UNKNOWN ELSE ps[SetMin(hit)][2]

\* _extract_vendors: the available vendors the text names, in their order
ExtractVendors(q, available) ==
    SelectSeq(available, LAMBDA v : AnyWord(q, {v}))

\* _extract_dates; error is the ValueError of date.fromisoformat or date(...)
ExtractDates(q) ==
    LET iso == SelectSeq(q, LAMBDA x : x.t = "iso")
        Bad(x) == ~ValidDate(x.y, x.m, x.d)
        D(x) == Ord(x.y, x.m, x.d)
        my == {i \in 1..(Len(q) - 1) :
                  HasWord(q, i, DOMAIN MONTHS) /\ q[i + 1].t = "num4"}
        year == q[SetMin(my) + 1].y
        month == MONTHS[q[SetMin(my)].w]
        Dates(e, s, n) == [error |-> e, start |-> s, end |-> n]
    IN IF Len(iso) >= 2
       THEN IF Bad(iso[1]) \/ Bad(iso[2])
            THEN Dates(ValueError("Invalid isoformat string"), NoDate, NoDate)
            ELSE Dates(NoError, D(iso[1]), D(iso[2]))
       ELSE IF Len(iso) = 1
       THEN IF Bad(iso[1])
            THEN Dates(ValueError("Invalid isoformat string"), NoDate, NoDate)
            ELSE Dates(NoError, D(iso[1]), NoDate)
       ELSE IF my = {} THEN Dates(NoError, NoDate, NoDate)
       ELSE IF ~ValidDate(year, month, 1)
       THEN Dates(ValueError("year is out of range"), NoDate, NoDate)
       ELSE Dates(NoError, Ord(year, month, 1), Ord(year, month, MONTH_DAYS[month]))

PRet(d, e, parsed) == [df |-> d, error |-> e, parsed |-> parsed]

\* RegexQueryParser.parse from available_vendors = get_vendors() on
RegexParseWith(av, q) ==
    LET intent == ExtractIntent(q)
        vendors == ExtractVendors(q, av.value)
        dates == ExtractDates(q)
        adjusted ==
            IF intent = QueryIntent.VENDOR_METRICS /\ vendors = <<>>
               /\ (dates.start # NoDate \/ dates.end # NoDate)
            THEN QueryIntent.PERIOD_METRICS ELSE intent
    IN IF Raised(av.error) THEN PRet(av.df, av.error, Null)
       ELSE IF Raised(dates.error) THEN PRet(av.df, dates.error, Null)
       ELSE PRet(av.df, NoError,
                 ParsedQuery(adjusted, vendors, dates.start, dates.end, q))

RegexParse(d, csv, q) == RegexParseWith(GetVendors(EnsureLoaded(d, csv)), q)

\* what the external model answers: no answer at all (the call raises), a
\* message without content, text that is no JSON, or a JSON object
LLMResponse(kind, intent, vendors, start, end) ==
    [kind |-> kind, intent |-> intent, vendors |-> vendors,
     start_date |-> start, end_date |-> end]

\* JSON null for a date field
NoIso == Iso(0, 0, 0)

APIError == Error("APIConnectionError", "INTERNAL_ERROR", 500, "Connection error.")

\* date.fromisoformat on a date field of the answer
BadIso(x) == x # NoIso /\ ~ValidDate(x.y, x.m, x.d)

FromIso(x) == IF x = NoIso THEN NoDate ELSE Ord(x.y, x.m, x.d)

\* LLMQueryParser.parse from available_vendors = get_vendors() on
LLMParseWith(av, resp) ==
    IF Raised(av.error) THEN PRet(av.df, av.error, Null)
    ELSE IF resp.kind = "api_error" THEN PRet(av.df, APIError, Null)
    ELSE IF resp.kind = "null_content"
    THEN PRet(av.df, ValueError("LLM response content is None"), Null)
    ELSE IF resp.kind = "bad_json"
    THEN PRet(av.df, ValueError("Expecting value"), Null)
    ELSE IF resp.intent \notin {QueryIntent[k] : k \in DOMAIN QueryIntent}
    THEN PRet(av.df, ValueError("not a valid QueryIntent"), Null)
    ELSE IF BadIso(resp.start_date) \/ BadIso(resp.end_date)
    THEN PRet(av.df, ValueError("Invalid isoformat string"), Null)
    ELSE PRet(av.df, NoError,
              ParsedQuery(resp.intent, resp.vendors, FromIso(resp.start_date),
                          FromIso(resp.end_date), <<>>))

LLMParse(d, csv, resp) == LLMParseWith(GetVendors(EnsureLoaded(d, csv)), resp)

\* the fields of VendorMetrics that _vendor_metrics reports
VendorEntry(m) ==
    [vendor |-> m.vendor, universes |-> m.universes,
     record_count |-> m.record_count, date_range |-> m.date_range,
     signal_strength_mean |-> m.signal_strength_mean,
     signal_strength_std |-> m.signal_strength_std,
     drawdown_rate |-> m.drawdown_rate,
     signal_volatility |-> m.signal_volatility,
     avg_signal_during_drawdown |-> m.avg_signal_during_drawdown,
     avg_signal_outside_drawdown |-> m.avg_signal_outside_drawdown]

\* for vendor in parsed.vendors: results[vendor] = ...
RECURSIVE VendorLoop(_, _, _, _, _, _)

\* one iteration, m being what get_vendor_metrics returned for Head(vs)
VendorLoopStep(m, csv, vs, start, end, results) ==
    IF Raised(m.error) THEN Ret(m.df, m.error, Null)
    ELSE VendorLoop(m.df, csv, Tail(vs), start, end,
                    (Head(vs) :> VendorEntry(m.value)) @@ results)

VendorLoop(d, csv, vs, start, end, results) ==
    IF vs = <<>> THEN Ret(d, NoError, results)
    ELSE VendorLoopStep(GetVendorMetrics(d, csv, Head(vs), start, end),
                        csv, vs, start, end, results)

\* a delegated call r and the QueryResult built from what it returns
Delegate(r, intent) ==
    IF Raised(r.error) THEN Ret(r.df, r.error, Null)
    ELSE Ret(r.df, NoError, QueryResult(intent, r.value, TRUE, ""))

\* QueryExecutor._list_vendors
ListVendorsFrom(r) ==
    IF Raised(r.error) THEN Ret(r.df, r.error, Null)
    ELSE Ret(r.df, NoError,
             QueryResult(QueryIntent.LIST_VENDORS,
                         [vendors |-> r.value, count |-> Len(r.value)], TRUE, ""))

\* variant of ExecVendorMetrics: only the first vendor is computed
ExecVendorMetricsFirstOnly(d, csv, parsed) ==
    IF parsed.vendors = <<>>
    THEN Ret(d, NoError,
             QueryResult(QueryIntent.VENDOR_METRICS, Null, FALSE, "No vendor specified"))
    ELSE Delegate(VendorLoop(d, csv, <<Head(parsed.vendors)>>, parsed.start_date,
                             parsed.end_date, [v \in {} |-> Null]),
                  QueryIntent.VENDOR_METRICS)

\* QueryExecutor._vendor_metrics
ExecVendorMetrics(d, csv, parsed) ==
    IF parsed.vendors = <<>>
    THEN Ret(d, NoError,
             QueryResult(QueryIntent.VENDOR_METRICS, Null, FALSE, "No vendor specified"))
    ELSE Delegate(VendorLoop(d, csv, parsed.vendors, parsed.start_date,
                             parsed.end_date, [v \in {} |-> Null]),
                  QueryIntent.VENDOR_METRICS)

\* the match statement of QueryExecutor.execute
Dispatch(d, csv, parsed) ==
    CASE parsed.intent = QueryIntent.LIST_VENDORS ->
            ListVendorsFrom(GetVendors(EnsureLoaded(d, csv)))
      [] parsed.intent = QueryIntent.VENDOR_METRICS -> ExecVendorMetrics(d, csv, parsed)
      [] parsed.intent = QueryIntent.PERIOD_METRICS ->
            Delegate(GetPeriodMetrics(d, csv, parsed.start_date, parsed.end_date),
                     QueryIntent.PERIOD_METRICS)
      [] parsed.intent = QueryIntent.COMPARE_VENDORS ->
            Delegate(GetComparativeMetrics(d, csv), QueryIntent.COMPARE_VENDORS)
      [] parsed.intent = QueryIntent.DRAWDOWN_ANALYSIS ->
            \* vendor = parsed.vendors[0] if parsed.vendors else None
            Delegate(GetDrawdownAnalysis(d, csv,
                        IF parsed.vendors # <<>> THEN parsed.vendors[1]
                        ELSE NoVendor),
                     QueryIntent.DRAWDOWN_ANALYSIS)
      [] OTHER ->
            Ret(d, NoError,
                QueryResult(QueryIntent.UNKNOWN, [suggestions |-> 4], FALSE,
                            "Unknown query intent"))

XRet(d, e, result, caught) ==
    [df |-> d, error |-> e, value |-> result, caught |-> caught]

\* variant of Catch: no except clause, the exception leaves execute
CatchNothing(r, parsed) == XRet(r.df, r.error, r.value, NoError)

\* the except clause of QueryExecutor.execute around the dispatch r
Catch(r, parsed) ==
    IF Raised(r.error)
    THEN XRet(r.df, NoError,
              QueryResult(parsed.intent, Null, FALSE, r.error.message), r.error)
    ELSE XRet(r.df, NoError, r.value, NoError)

\* QueryExecutor.execute: try: <dispatch> except Exception as e: <result>
Execute(d, csv, parsed) == Catch(Dispatch(d, csv, parsed), parsed)

\* process_query once the parser returned p and the executor x
Answer(p, x) ==
    IF Raised(x.error) THEN Ret(x.df, x.error, Null)
    ELSE Ret(x.df, NoError, [result |-> x.value, parsed |-> p.parsed])

\* process_query from parsed = self._parser.parse(query) on
Parsed(p, csv) ==
    IF Raised(p.error) THEN Ret(p.df, p.error, Null)
    ELSE Answer(p, Execute(p.df, csv, p.parsed))

\* QueryService.process_query: parsed = parse(query); result = execute(parsed)
ProcessQuery(d, csv, parser, q, resp) ==
    Parsed(IF parser = "regex" THEN RegexParse(d, csv, q) ELSE LLMParse(d, csv, resp),
           csv)

-----------------------------------------------------------------------------
(* load_data_from_upload: one frame per request in flight.  The coroutine  *)
(* runs from an await of read_chunk to the next one in one step.           *)

Uploads == {1, 2}

Frame(pc, source, pos, contents, bytes_read, step, error, result) ==
    [pc |-> pc, source |-> source, pos |-> pos, contents |-> contents,
     bytes_read |-> bytes_read, step |-> step, error |-> error, result |-> result]

IdleFrame == Frame("idle", <<>>, 0, <<>>, 0, 0, NoError, Null)

\* content types a request can declare; "" is a request that declares none
ContentTypes == {"text/csv", "text/plain", "application/json", ""}

allowed_content_types == {"text/csv", "application/csv", "text/plain"}

\* file names a request can carry; "" is a request without one
Filenames == {"data.csv", "DATA.CSV", "data.json", ""}

\* filename.lower().endswith(".csv")
LowerEndsWithCsv(f) == f \in {"data.csv", "DATA.CSV"}

\* variant of TooLarge: a payload of exactly max_file_size is rejected too
TooLargeInclusive(bytes_read) == bytes_read >= MaxFileSize

\* the size check of the read loop: if bytes_read > max_file_size: raise
TooLarge(bytes_read) == bytes_read > MaxFileSize

\* steps 1 and 2, up to the first await of read_chunk
UploadBegin(content_type, filename, source) ==
    IF content_type \notin allowed_content_types
    THEN Frame("failed", <<>>, 0, <<>>, 0, 1, ValueError("Invalid file type"), Null)
    ELSE IF filename # "" /\ ~LowerEndsWithCsv(filename)
    THEN Frame("failed", <<>>, 0, <<>>, 0, 2,
               ValueError("Invalid file extension. Only .csv files allowed."), Null)
    ELSE Frame("reading", source, 0, <<>>, 0, 3, NoError, Null)

\* step 3: read_chunk returned n > 0 bytes; the loop body, up to the next await
UploadChunk(f, n) ==
    LET chunk == SubSeq(f.source, f.pos + 1, f.pos + n)
        bytes_read == f.bytes_read + Len(chunk)
    IN IF TooLarge(bytes_read)
       THEN [f EXCEPT !.pc = "failed", !.pos = @ + n, !.bytes_read = bytes_read,
                      !.error = FileTooLargeError]
       ELSE [f EXCEPT !.pos = @ + n, !.bytes_read = bytes_read,
                      !.contents = @ \o chunk]

\* variant of UploadEnd: total_records is counted on the table stored
\* before the load
UploadEndStaleCount(d, f) ==
    LET l == LoadDataFromBytes(d, f.contents)
        v == GetVendors(EnsureLoaded(l.df, CsvEmpty))
    IN IF f.contents = <<>>
       THEN [df |-> d,
             frame |-> [f EXCEPT !.pc = "failed", !.step = 4,
                                 !.error = ValueError("Empty file")]]
       ELSE IF Raised(l.error)
       THEN [df |-> l.df, frame |-> [f EXCEPT !.pc = "failed", !.step = 5,
                                              !.error = l.error]]
       ELSE [df |-> l.df,
             frame |-> [f EXCEPT !.pc = "done", !.step = 5,
                           !.result = [total_records |-> Len(d.rows),
                                       vendors |-> v.value,
                                       file_size_bytes |-> f.bytes_read]]]

\* steps 4 and 5: read_chunk returned b""; df is the stored table after it
UploadEnd(d, f) ==
    LET l == LoadDataFromBytes(d, f.contents)
        n == Dataframe(EnsureLoaded(l.df, CsvEmpty))
        v == GetVendors(EnsureLoaded(l.df, CsvEmpty))
    IN IF f.contents = <<>>
       THEN [df |-> d,
             frame |-> [f EXCEPT !.pc = "failed", !.step = 4,
                                 !.error = ValueError("Empty file")]]
       ELSE IF Raised(l.error)
       THEN [df |-> l.df, frame |-> [f EXCEPT !.pc = "failed", !.step = 5,
                                              !.error = l.error]]
       ELSE [df |-> l.df,
             frame |-> [f EXCEPT !.pc = "done", !.step = 5,
                           !.result = [total_records |-> Len(n.value),
                                       vendors |-> v.value,
                                       file_size_bytes |-> f.bytes_read]]]

-----------------------------------------------------------------------------
(* State machine *)

NoArgs == [vendor |-> NoVendor, start |-> NoDate, end |-> NoDate]
Args(vendor, start, end) == [vendor |-> vendor, start |-> start, end |-> end]

Outcome(op, args, error, value, calls, caught, shared) ==
    [op |-> op, args |-> args, error |-> error, value |-> value, calls |-> calls,
     caught |-> caught, shared |-> shared]

Init ==
    /\ df = NoneDf
    /\ up = [u \in Uploads |-> IdleFrame]
    /\ last = Outcome("init", NoArgs, NoError, Null, <<>>, NoError, FALSE)

\* what the file at csv_path can hold
CsvFiles == {CsvSample, CsvHeaderOnly, CsvNoVendor}

\* the contents of the file at csv_path that a call can find when it reads
\* the file; a call on loaded data does not read it
FileAtPath(d) == IF IsNone(d) THEN CsvFiles ELSE {CsvEmpty}

\* a data-loader method called directly
Loader(op, args, r) ==
    /\ df' = r.df
    /\ last' = Outcome(op, args, r.error, r.value, <<op>>, NoError, FALSE)
    /\ UNCHANGED up

\* a metrics-service method
Metrics(op, args, r) ==
    /\ df' = r.df
    /\ last' = Outcome(op, args, r.error, r.value, r.calls, NoError, FALSE)
    /\ UNCHANGED up

DataframeProp ==
    \E csv \in FileAtPath(df) :
        LET r == Dataframe(EnsureLoaded(df, csv))
            c == Copy(r.value)
        IN /\ df' = r.df
           /\ last' = Outcome("dataframe", NoArgs, r.error, c.rows, <<"dataframe">>,
                              NoError, ~Raised(r.error) /\ c.shared)
           /\ UNCHANGED up

\* the caller changes the frame it was handed (here: drops its first row)
CallerMutates ==
    /\ last.op \in {"dataframe", "get_vendor_data", "get_data_by_universe",
                    "get_data_by_date_range", "get_drawdown_periods"}
    /\ ~Raised(last.error)
    /\ last.value # <<>>
    /\ last' = [last EXCEPT !.op = "caller_mutation", !.value = Tail(@)]
    /\ df' = IF last.shared THEN [df EXCEPT !.rows = Tail(last.value)] ELSE df
    /\ UNCHANGED up

GetVendorsCall ==
    \E csv \in FileAtPath(df) :
        Loader("get_vendors", NoArgs, GetVendors(EnsureLoaded(df, csv)))

GetUniversesCall ==
    \E csv \in FileAtPath(df) :
        Loader("get_universes", NoArgs, GetUniverses(EnsureLoaded(df, csv)))

GetDateRangeCall ==
    \E csv \in FileAtPath(df) :
        Loader("get_date_range", NoArgs, GetDateRange(EnsureLoaded(df, csv)))

GetVendorDataCall ==
    \E csv \in FileAtPath(df), v \in VendorNames, s \in OptDates, e \in OptDates :
        Loader("get_vendor_data", Args(v, s, e),
               GetVendorData(EnsureLoaded(df, csv), v, s, e))

Universes == {"Equities", "FX", "Crypto"}

GetDataByUniverseCall ==
    \E csv \in FileAtPath(df), u \in Universes :
        Loader("get_data_by_universe", Args(u, NoDate, NoDate),
               GetDataByUniverse(EnsureLoaded(df, csv), u))

GetDataByDateRangeCall ==
    \E csv \in FileAtPath(df), s \in OptDates, e \in OptDates :
        Loader("get_data_by_date_range", Args(NoVendor, s, e),
               GetDataByDateRange(EnsureLoaded(df, csv), s, e))

GetDrawdownPeriodsCall ==
    \E csv \in FileAtPath(df), v \in VendorNames \cup {NoVendor} :
        Loader("get_drawdown_periods", Args(v, NoDate, NoDate),
               GetDrawdownPeriods(EnsureLoaded(df, csv), v))

ReloadCall ==
    \E csv \in CsvFiles :
        LET r == Reload(df, csv)
        IN /\ df' = r.df
           /\ last' = Outcome("reload", NoArgs, r.error, r.value, <<"reload">>,
                              NoError, FALSE)
           /\ UNCHANGED up

LoadDataFromBytesCall ==
    \E data \in Payloads \cup EdgeCases :
        LET r == LoadDataFromBytes(df, data)
        IN /\ df' = r.df
           /\ last' = Outcome("load_data_from_bytes", NoArgs, r.error, r.value,
                              <<"load_data_from_bytes">>, NoError, FALSE)
           /\ UNCHANGED up

GetVendorMetricsCall ==
    \E csv \in FileAtPath(df), v \in VendorNames, s \in OptDates, e \in OptDates :
        Metrics("get_vendor_metrics", Args(v, s, e),
                GetVendorMetrics(df, csv, v, s, e))

GetPeriodMetricsCall ==
    \E csv \in FileAtPath(df), s \in OptDates, e \in OptDates :
        Metrics("get_period_metrics", Args(NoVendor, s, e),
                GetPeriodMetrics(df, csv, s, e))

GetComparativeMetricsCall ==
    \E csv \in FileAtPath(df) :
        Metrics("get_comparative_metrics", NoArgs, GetComparativeMetrics(df, csv))

GetDrawdownAnalysisCall ==
    \E csv \in FileAtPath(df), v \in VendorNames \cup {NoVendor} :
        Metrics("get_drawdown_analysis", Args(v, NoDate, NoDate),
                GetDrawdownAnalysis(df, csv, v))

\* the ParsedQuery values handed to execute
ParsedQueries ==
    {ParsedQuery(i, <<>>, NoDate, NoDate, <<>>) :
        i \in {QueryIntent.LIST_VENDORS, QueryIntent.COMPARE_VENDORS,
               QueryIntent.UNKNOWN}}
    \cup {ParsedQuery(i, vs, dp[1], dp[2], <<>>) :
            i \in {QueryIntent.VENDOR_METRICS, QueryIntent.PERIOD_METRICS},
            vs \in {<<>>, <<"A", "B">>, <<"B", "Z">>},
            dp \in {<<NoDate, NoDate>>, <<Day(2), Day(2)>>, <<Day(1), Day(2)>>,
                    <<Day(MaxDay), NoDate>>}}
    \cup {ParsedQuery(QueryIntent.DRAWDOWN_ANALYSIS, vs, NoDate, NoDate, <<>>) :
            vs \in {<<>>, <<"A", "B">>, <<"B", "Z">>}}

ExecuteCall ==
    \E csv \in FileAtPath(df), parsed \in ParsedQueries :
        LET x == Execute(df, csv, parsed)
        IN /\ df' = x.df
           /\ last' = Outcome("execute", parsed, x.error, x.value, <<>>, x.caught,
                              FALSE)
           /\ UNCHANGED up

Queries ==
    {<<Word("list"), Word("all"), Word("vendors")>>,
     <<Word("which"), Word("vendor"), Word("is"), Word("best")>>,
     <<Word("what"), Word("vendors"), Word("are"), Word("available")>>,
     <<Word("metrics"), Word("for"), Word("A")>>,
     <<Word("signal"), Word("of"), Word("A"), Word("and"), Word("B")>>,
     <<Word("show"), Word("drawdown"), Word("periods"), Word("for"), Word("B")>>,
     <<Word("metrics"), Word("in"), Word("january"), Num4(2023)>>,
     <<Word("metrics"), Word("for"), Word("A"), Word("in"), Word("february"),
       Num4(2024)>>,
     <<Word("data"), Word("from"), Iso(2023, 1, 1), Word("to"), Iso(2023, 1, 2)>>,
     <<Word("data"), Word("since"), Iso(2023, 1, MaxDay + 1)>>,
     <<Word("metrics"), Word("on"), Iso(2023, 13, 45)>>,
     <<Word("data"), Word("of"), Word("february"), Num4(0)>>,
     <<Word("metrics")>>,
     <<Word("hello")>>}

ProcessQueryRegex ==
    \E csv \in FileAtPath(df), q \in Queries :
        LET r == ProcessQuery(df, csv, "regex", q, <<>>)
        IN /\ df' = r.df
           /\ last' = Outcome("process_query", [parser |-> "regex", query |-> q],
                              r.error, r.value, <<>>, NoError, FALSE)
           /\ UNCHANGED up

LLMResponses ==
    {LLMResponse(k, QueryIntent.UNKNOWN, <<>>, NoIso, NoIso) :
        k \in {"api_error", "null_content", "bad_json"}}
    \cup
    {LLMResponse("json", i, <<>>, NoIso, NoIso) :
        i \in {QueryIntent.LIST_VENDORS, QueryIntent.COMPARE_VENDORS,
               QueryIntent.UNKNOWN, "summary"}}
    \cup
    {LLMResponse("json", QueryIntent.DRAWDOWN_ANALYSIS, vs, NoIso, NoIso) :
        vs \in {<<>>, <<"A", "Z">>}}
    \cup
    {LLMResponse("json", i, vs, s, e) :
        i \in {QueryIntent.VENDOR_METRICS, QueryIntent.PERIOD_METRICS},
        vs \in {<<>>, <<"A", "Z">>},
        s \in {NoIso, Iso(2023, 1, 2), Iso(2023, 2, 30)},
        e \in {NoIso, Iso(2023, 1, 2)}}

ProcessQueryLLM ==
    \E csv \in FileAtPath(df), resp \in LLMResponses :
        LET r == ProcessQuery(df, csv, "llm", <<Word("hello")>>, resp)
        IN /\ df' = r.df
           /\ last' = Outcome("process_query", [parser |-> "llm", query |-> resp],
                              r.error, r.value, <<>>, NoError, FALSE)
           /\ UNCHANGED up

\* the query texts handed to RegexQueryParser.parse: up to MaxWords words
\* followed by nothing, a month name, a month name and a year (in either
\* order), or ISO dates
ParserQueries ==
    LET words == {Word(w) : w \in {"which", "better", "best", "list", "vendors",
                                     "available", "drawdown", "from", "to",
                                     "metrics", "A"}}
        heads == UNION {[1..n -> words] : n \in 0..MaxWords}
        years == {Num4(0), Num4(2023), Num4(2024)}
        months == {Word(m) : m \in DOMAIN MONTHS}
        dates == {<<>>, <<Word("may")>>, <<Num4(2023), Word("may")>>,
                  <<Iso(2023, 1, 1)>>, <<Iso(2023, 13, 45)>>,
                  <<Iso(2023, 1, 1), Word("to"), Iso(2023, 1, 2)>>}
                 \cup {<<m, y>> : m \in months, y \in years}
    IN {h \o d : h \in heads, d \in dates}

\* a query text has arrived and RegexQueryParser.parse has not been called
InitParser ==
    \E q \in ParserQueries :
        /\ df = NoneDf
        /\ up = [u \in Uploads |-> IdleFrame]
        /\ last = Outcome("query", [parser |-> "regex", query |-> q], NoError, Null,
                          <<>>, NoError, FALSE)

\* RegexQueryParser.parse on the query text that has arrived
RegexParseCall ==
    /\ last.op = "query"
    /\ \E csv \in FileAtPath(df) :
        LET r == RegexParse(df, csv, last.args.query)
        IN /\ df' = r.df
           /\ last' = Outcome("parse", last.args, r.error, r.parsed, <<>>, NoError,
                              FALSE)
           /\ UNCHANGED up

\* the outcome of an upload request that has returned or raised
UploadOutcome(f) ==
    Outcome("load_data_from_upload", NoArgs, f.error, f.result, <<>>, NoError, FALSE)

\* a new upload request arrives
UploadBeginStep(u) ==
    /\ up[u].pc # "reading"
    /\ \E ct \in ContentTypes, fn \in Filenames, source \in Payloads :
        LET f == UploadBegin(ct, fn, source)
        IN /\ up' = [up EXCEPT ![u] = f]
           /\ last' = IF f.pc = "failed" THEN UploadOutcome(f) ELSE last
           /\ UNCHANGED df

\* read_chunk hands over the next 1..chunk_size bytes of the stream
UploadChunkStep(u) ==
    /\ up[u].pc = "reading"
    /\ \E n \in 1..ChunkSize :
        /\ up[u].pos + n <= Len(up[u].source)
        /\ LET f == UploadChunk(up[u], n)
           IN /\ up' = [up EXCEPT ![u] = f]
              /\ last' = IF f.pc = "failed" THEN UploadOutcome(f) ELSE last
              /\ UNCHANGED df

\* read_chunk reports the end of the stream
UploadEndStep(u) ==
    /\ up[u].pc = "reading"
    /\ up[u].pos = Len(up[u].source)
    /\ LET r == UploadEnd(df, up[u])
       IN /\ up' = [up EXCEPT ![u] = r.frame]
          /\ df' = r.df
          /\ last' = UploadOutcome(r.frame)

Upload(u) == UploadBeginStep(u) \/ UploadChunkStep(u) \/ UploadEndStep(u)

Next ==
    \/ DataframeProp
    \/ CallerMutates
    \/ GetVendorsCall
    \/ GetUniversesCall
    \/ GetDateRangeCall
    \/ GetVendorDataCall
    \/ GetDataByUniverseCall
    \/ GetDataByDateRangeCall
    \/ GetDrawdownPeriodsCall
    \/ ReloadCall
    \/ LoadDataFromBytesCall
    \/ GetVendorMetricsCall
    \/ GetPeriodMetricsCall
    \/ GetComparativeMetricsCall
    \/ GetDrawdownAnalysisCall
    \/ ExecuteCall
    \/ ProcessQueryRegex
    \/ ProcessQueryLLM

\* the synchronous calls of the service
Spec == Init /\ [][Next]_vars

NextParser == RegexParseCall

\* the regex parser on its own
SpecParser == InitParser /\ [][NextParser]_vars

NextUploads == \E u \in Uploads : Upload(u)

\* upload requests in flight together
SpecUploads == Init /\ [][NextUploads]_vars

-----------------------------------------------------------------------------
(* Properties *)

\* rows in ascending (vendor, date) order
IsSorted(s) == \A i \in 1..(Len(s) - 1) : KeyLeq(s[i], s[i + 1])

\* a complete dataset: every column present, rows in (vendor, date) order
IsDataset(t) == ~IsNone(t) /\ t.cols = "full" /\ IsSorted(t.rows)

LoadOps == {"load_data_from_bytes", "reload", "load_data_from_upload"}

ReadOps == {"dataframe", "get_vendors", "get_universes", "get_date_range",
            "get_vendor_data", "get_data_by_universe", "get_data_by_date_range",
            "get_drawdown_periods"}

MetricsOps == {"get_vendor_metrics", "get_period_metrics",
               "get_comparative_metrics", "get_drawdown_analysis"}

\* C1: a load replaces the dataset atomically: whatever a load call does,
\* the stored table after it is either the table stored before it or a
\* complete, sorted new dataset; never no dataset, never an unsorted or
\* partially built table.
C1_AtomicReplacement ==
    [][last'.op \in LoadOps => (df' = df \/ IsDataset(df'))]_vars

\* rows of the stored table that belong to the vendor of the last call
C2_Own == SelectSeq(df.rows, LAMBDA r : r.vendor = last.args.vendor)

\* and, of these, the rows with start <= date <= end, a missing bound
\* being no bound
C2_Within ==
    SelectSeq(C2_Own, LAMBDA r :
        /\ (last.args.start = NoDate \/ last.args.start <= r.date)
        /\ (last.args.end = NoDate \/ r.date <= last.args.end))

C3_DatesCheckedFirst ==
    [][(/\ last'.op = "get_vendor_metrics"
        /\ last'.args.start # NoDate /\ last'.args.end # NoDate
        /\ last'.args.start >= last'.args.end)
       => (/\ last'.error = InvalidDateRangeError
           /\ last'.calls = <<>>
           /\ df' = df)]_vars

\* equal dates, a vendor that is in no dataset, and nothing loaded
C3_Witness ==
    /\ last.op = "get_vendor_metrics"
    /\ last.args.vendor = "Z"
    /\ last.args.start # NoDate /\ last.args.start = last.args.end
    /\ last.error = InvalidDateRangeError
    /\ IsNone(df)

\* the rows of the stored table within the dates of the last call
C4_Selected ==
    SelectSeq(df.rows, LAMBDA r :
        /\ (last.args.start = NoDate \/ last.args.start <= r.date)
        /\ (last.args.end = NoDate \/ r.date <= last.args.end))

\* C4: get_period_metrics tolerates emptiness: when the dates select no
\* row of the loaded dataset it returns a PeriodMetrics with all counts zero
\* and empty per-vendor maps instead of propagating NoDataInRangeError.
C4_PeriodToleratesEmpty ==
    (last.op = "get_period_metrics" /\ IsDataset(df) /\ C4_Selected = <<>>) =>
        /\ last.error = NoError
        /\ last.value.record_count = 0
        /\ last.value.vendor_count = 0
        /\ last.value.total_drawdown_events = 0
        /\ DOMAIN last.value.vendor_avg_signals = {}

\* C5: a natural-language query never ends in an exception: whatever the
\* query text and whatever fails in parsing or in the delegated computation,
\* process_query returns a structured result.
C5_QueryNeverRaises ==
    last.op = "process_query" => ~Raised(last.error)

\* C6: QueryExecutor.execute never raises: when the delegated computation
\* raises, it returns a QueryResult with success false, no data, the
\* exception's message as error and the parsed intent as intent.
C6_ExecuteNeverRaises ==
    last.op = "execute" =>
        /\ ~Raised(last.error)
        /\ Raised(last.caught) =>
              last.value = QueryResult(last.args.intent, Null, FALSE,
                                       last.caught.message)

\* the delegated computation raised and execute answered
C6_Witness ==
    /\ last.op = "execute"
    /\ Raised(last.caught)
    /\ ~Raised(last.error)
    /\ last.value.success = FALSE

C8_DistinctRejections ==
    \A u, w \in Uploads :
        (/\ up[u].pc = "failed" /\ up[w].pc = "failed"
         /\ up[u].step \in 1..4 /\ up[w].step \in 1..4
         /\ up[u].step # up[w].step)
        => <<up[u].error.type, up[u].error.code>>
              # <<up[w].error.type, up[w].error.code>>

\* C9: after every load that completes successfully the stored dataset is
\* non-empty and sorted by (vendor, date); a payload that parses to zero
\* records is not accepted.
C9_LoadedNonEmptySorted ==
    (last.op \in LoadOps /\ ~Raised(last.error)) =>
        /\ ~IsNone(df)
        /\ df.rows # <<>>
        /\ IsSorted(df.rows)

\* C10: no read mutates a loaded dataset: a read of the loader, a change a
\* caller makes to a frame it was handed, or a metrics computation, failed
\* or not, leaves the stored table as it is.
C10_ReadsLeaveDataset ==
    [][(/\ ~IsNone(df)
        /\ last'.op \in ReadOps \cup MetricsOps \cup {"caller_mutation"})
       => df' = df]_vars

\* a caller has changed the frame the dataframe property handed out
C10_Witness ==
    /\ last.op = "caller_mutation"
    /\ ~IsNone(df)
    /\ last.calls = <<"dataframe">>
    /\ last.value # df.rows

\* C11: get_date_range on a store with no data loaded fails with an
\* EmptyDataset error: it returns no range and obtains no data on its own,
\* so the store is still without data after the call.
C11_DateRangeNeedsData ==
    [][(IsNone(df) /\ last'.op = "get_date_range")
       => (/\ Raised(last'.error)
           /\ last'.error.type = "EmptyDatasetError"
           /\ IsNone(df'))]_vars


\* the vendors of the stored table, in the order of get_vendors()
StoredVendors == Unique(Column(df.rows, "vendor"))

\* what get_vendor_metrics(v) gives on the stored table
StoredMetrics(v) == VendorMetricsOf[SelectSeq(df.rows, LAMBDA r : r.vendor = v)]

\* the vendors whose signal_volatility is not null
Rated == {v \in Range(StoredVendors) : StoredMetrics(v).signal_volatility # <<>>}

\* a completed get_comparative_metrics on a dataset that has records
Compared ==
    /\ last.op = "get_comparative_metrics"
    /\ IsDataset(df) /\ df.rows # <<>>
    /\ ~Raised(last.error)

\* r maps S one-to-one onto 1..N, N the size of S
IsRanking(r, S) ==
    /\ DOMAIN r = S
    /\ {r[v] : v \in S} = 1..Cardinality(S)

\* C12: each ranking map that get_comparative_metrics returns is a
\* bijection onto 1..N with no duplicate ranks, vendors with equal scores
\* included: ranking_by_avg_signal over all the vendors, and
\* ranking_by_stability over the vendors with a non-null volatility.
C12_RankingsBijective ==
    Compared =>
        /\ IsRanking(last.value.ranking_by_avg_signal, Range(StoredVendors))
        /\ IsRanking(last.value.ranking_by_stability, Rated)

\* two vendors with the same mean signal and the same volatility are ranked
C12_Witness ==
    /\ Compared
    /\ \E v, w \in Rated :
        /\ v # w
        /\ StoredMetrics(v).signal_strength_mean = StoredMetrics(w).signal_strength_mean
        /\ StoredMetrics(v).signal_volatility = StoredMetrics(w).signal_volatility
        /\ last.value.ranking_by_avg_signal[v] # last.value.ranking_by_avg_signal[w]
        /\ last.value.ranking_by_stability[v] # last.value.ranking_by_stability[w]

\* C13: ranking_by_stability contains exactly the vendors whose
\* signal_volatility is not null (none when all are null) and orders them
\* by ascending volatility: the vendor with the strictly lower volatility
\* has the strictly smaller rank.
C13_StabilityRanking ==
    Compared =>
        /\ DOMAIN last.value.ranking_by_stability = Rated
        /\ \A v, w \in Rated :
              StoredMetrics(v).signal_volatility[1] < StoredMetrics(w).signal_volatility[1]
              => last.value.ranking_by_stability[v] < last.value.ranking_by_stability[w]

\* the most stable vendor is not the first vendor
C13_Witness ==
    /\ Compared
    /\ \E v, w \in Rated :
        /\ StoredMetrics(v).signal_volatility[1] < StoredMetrics(w).signal_volatility[1]
        /\ last.value.ranking_by_stability[v] = 1
        /\ StoredVendors[1] = w

\* C14: best_avg_signal is the vendor with the highest signal_strength_mean
\* and lowest_drawdown_rate the vendor with the lowest drawdown_rate; among
\* vendors with equal values the first in get_vendors() order is named.
C14_BestAndLowest ==
    Compared =>
        \E i, k \in 1..Len(StoredVendors) :
            /\ last.value.best_avg_signal = StoredVendors[i]
            /\ \A j \in 1..Len(StoredVendors) :
                  /\ StoredMetrics(StoredVendors[j]).signal_strength_mean
                        <= StoredMetrics(StoredVendors[i]).signal_strength_mean
                  /\ j < i => StoredMetrics(StoredVendors[j]).signal_strength_mean
                                 < StoredMetrics(StoredVendors[i]).signal_strength_mean
            /\ last.value.lowest_drawdown_rate = StoredVendors[k]
            /\ \A j \in 1..Len(StoredVendors) :
                  /\ StoredMetrics(StoredVendors[j]).drawdown_rate
                        >= StoredMetrics(StoredVendors[k]).drawdown_rate
                  /\ j < k => StoredMetrics(StoredVendors[j]).drawdown_rate
                                 > StoredMetrics(StoredVendors[k]).drawdown_rate

\* two vendors have the highest mean signal and the lowest drawdown rate
C14_Witness ==
    /\ Compared
    /\ \E v, w \in Range(StoredVendors) :
        /\ v # w
        /\ StoredMetrics(v).signal_strength_mean = StoredMetrics(w).signal_strength_mean
        /\ StoredMetrics(v).drawdown_rate = StoredMetrics(w).drawdown_rate
        /\ last.value.best_avg_signal = v
        /\ last.value.lowest_drawdown_rate = v

\* C15: highest_signal_volatility is the vendor with the highest
\* signal_volatility among the vendors whose volatility is not null; when
\* every vendor's volatility is null it is the first vendor in iteration
\* order, and the call does not fail.
C15_HighestVolatility ==
    (/\ last.op = "get_comparative_metrics"
     /\ IsDataset(df) /\ df.rows # <<>>) =>
        /\ ~Raised(last.error)
        /\ Rated # {} =>
              /\ last.value.highest_signal_volatility \in Rated
              /\ \A v \in Rated :
                    StoredMetrics(v).signal_volatility[1]
                       <= StoredMetrics(last.value.highest_signal_volatility)
                             .signal_volatility[1]
        /\ Rated = {} => last.value.highest_signal_volatility = StoredVendors[1]

\* no vendor of a dataset of several vendors has a volatility
C15_Witness ==
    /\ Compared
    /\ Len(StoredVendors) > 1
    /\ Rated = {}
    /\ last.value.highest_signal_volatility = StoredVendors[1]


\* a completed get_vendor_metrics
Measured == last.op = "get_vendor_metrics" /\ ~Raised(last.error)

\* C16: every numeric field of the VendorMetrics of a non-empty slice is a
\* finite number or null, never NaN; with exactly one record the three std
\* fields are 0.0 and feature_xy_correlation is null, and with a constant
\* feature_x or feature_y the correlation is null.
C16_FiniteOrNull ==
    Measured =>
        /\ \A f \in {"feature_x_mean", "feature_x_std", "feature_y_mean",
                     "feature_y_std", "signal_strength_mean",
                     "signal_strength_std", "signal_strength_min",
                     "signal_strength_max", "drawdown_rate"} :
              last.value[f] # NaN
        /\ \A f \in {"feature_xy_correlation", "signal_volatility",
                     "avg_signal_during_drawdown", "avg_signal_outside_drawdown"} :
              last.value[f] = <<>> \/ last.value[f][1] # NaN
        /\ last.value.record_count = 1 =>
              /\ last.value.feature_x_std = 0
              /\ last.value.feature_y_std = 0
              /\ last.value.signal_strength_std = 0
              /\ last.value.feature_xy_correlation = <<>>
        /\ (\/ Cardinality(Range(Column(C2_Within, "feature_x"))) = 1
            \/ Cardinality(Range(Column(C2_Within, "feature_y"))) = 1) =>
              last.value.feature_xy_correlation = <<>>

\* C17: get_period_metrics over a date slice of exactly one row reports a
\* signal_strength_std of 0.0, as get_vendor_metrics does for one record.
C17_PeriodStdOfOneRow ==
    (/\ last.op = "get_period_metrics"
     /\ ~Raised(last.error)
     /\ last.value.record_count = 1) =>
        last.value.signal_strength_std = 0

\* the signal_strength values behind the last get_vendor_metrics, their
\* common unit, and their sum and squared spread in that unit
C18_Signals == Column(C2_Within, "signal_strength")

C18_Unit == SetMax({1, Tick(C18_Signals)})

C18_Sum == SumSeq([i \in 1..Len(C18_Signals) |-> C18_Signals[i] \div C18_Unit])

C18_Abs == IF C18_Sum < 0 THEN -C18_Sum ELSE C18_Sum

C18_Spread == Cross(C18_Signals, C18_Unit, C18_Signals, C18_Unit)

\* m + 1/2 <= 10000 * std / |mean|, std with the n - 1 denominator
C18_Reaches(m) ==
    FracLeq((2 * m + 1) * (Len(C18_Signals) - 1) * C18_Abs,
            20000 * Len(C18_Signals),
            20000 * C18_Spread,
            (2 * m + 1) * C18_Abs)

\* C18: signal_volatility is null exactly when the mean of signal_strength
\* is zero (|mean| <= 1e-10); otherwise it is std/|mean| rounded to four
\* decimals: 0.0 for a constant non-zero signal, and never negative, a
\* negative mean included.
C18_VolatilityRule ==
    (Measured /\ \A i \in 1..Len(C18_Signals) : C18_Signals[i] # NaN) =>
        /\ last.value.signal_volatility = <<>> <=> C18_Sum = 0
        /\ C18_Sum # 0 =>
              /\ last.value.signal_volatility[1] >= 0
              /\ IF C18_Spread = 0
                 THEN last.value.signal_volatility[1] = 0
                 ELSE /\ ~C18_Reaches(last.value.signal_volatility[1])
                      /\ \/ last.value.signal_volatility[1] = 0
                         \/ C18_Reaches(last.value.signal_volatility[1] - 1)

\* a vendor whose signals vary around a negative mean
C18_Witness ==
    /\ Measured
    /\ \A i \in 1..Len(C18_Signals) : C18_Signals[i] # NaN
    /\ C18_Sum < 0
    /\ C18_Spread > 0
    /\ last.value.signal_volatility # <<>>
    /\ last.value.signal_volatility[1] > 0

\* C19: for every dataset the store accepts and every vendor slice,
\* drawdown_rate lies in [0, 1] and is sum(drawdown_flag) / record_count,
\* and drawdown_count <= record_count.
C19_RateWithinUnit ==
    Measured =>
        /\ last.value.drawdown_rate >= 0
        /\ last.value.drawdown_rate <= 10000
        /\ last.value.drawdown_count = SumSeq(Column(C2_Within, "drawdown_flag"))
        /\ last.value.drawdown_rate
               = RoundDiv(10000 * last.value.drawdown_count, last.value.record_count)
        /\ last.value.drawdown_count <= last.value.record_count

\* the rows that get_drawdown_analysis looks at: flagged 1, of the vendor
\* when one is given
C20_Flagged ==
    SelectSeq(df.rows, LAMBDA r :
        /\ r.drawdown_flag = 1
        /\ (last.args.vendor = NoVendor \/ r.vendor = last.args.vendor))

\* C20: get_drawdown_analysis on an empty drawdown slice (no flagged rows,
\* a vendor without drawdowns, a vendor not in the dataset) does not fail
\* and returns 0 events, no affected vendor, a null average signal, no
\* dates, and no by_vendor entry.
C20_EmptyDrawdownAnalysis ==
    (/\ last.op = "get_drawdown_analysis"
     /\ IsDataset(df)
     /\ C20_Flagged = <<>>) =>
        /\ ~Raised(last.error)
        /\ last.value.total_drawdown_events = 0
        /\ last.value.vendors_affected = <<>>
        /\ last.value.avg_signal_during_drawdown = Null
        /\ last.value.drawdown_dates = <<>>
        /\ last.value.keys = {"total_drawdown_events", "vendors_affected",
                              "avg_signal_during_drawdown", "drawdown_dates"}

\* the analysis of a vendor that has records but no drawdown, on a dataset
\* in which another vendor has one
C20_Witness ==
    /\ last.op = "get_drawdown_analysis"
    /\ IsDataset(df)
    /\ C20_Flagged = <<>>
    /\ \E i \in 1..Len(df.rows) : df.rows[i].vendor = last.args.vendor
    /\ \E i \in 1..Len(df.rows) : df.rows[i].drawdown_flag = 1
    /\ ~Raised(last.error)
    /\ last.value.total_drawdown_events = 0


\* C21: get_drawdown_analysis on a non-empty drawdown slice returns as
\* total_drawdown_events the number of flagged rows, one drawdown_dates
\* entry per flagged row, as vendors_affected the distinct vendors of those
\* rows, and a by_vendor map over exactly these vendors whose counts add up
\* to the total; with a vendor filter only that vendor appears.
C21_DrawdownAnalysisCounts ==
    (/\ last.op = "get_drawdown_analysis"
     /\ IsDataset(df)
     /\ C20_Flagged # <<>>) =>
        /\ ~Raised(last.error)
        /\ last.value.total_drawdown_events = Len(C20_Flagged)
        /\ Len(last.value.drawdown_dates) = Len(C20_Flagged)
        /\ Range(last.value.vendors_affected) = Range(Column(C20_Flagged, "vendor"))
        /\ Cardinality(Range(last.value.vendors_affected))
              = Len(last.value.vendors_affected)
        /\ "by_vendor" \in last.value.keys
        /\ DOMAIN last.value.by_vendor = Range(last.value.vendors_affected)
        /\ SumSeq([i \in 1..Len(last.value.vendors_affected) |->
                      last.value.by_vendor[last.value.vendors_affected[i]]])
              = last.value.total_drawdown_events
        /\ last.args.vendor # NoVendor =>
              Range(last.value.vendors_affected) = {last.args.vendor}

\* an analysis without a vendor filter in which two vendors are affected
C21_Witness ==
    /\ last.op = "get_drawdown_analysis"
    /\ IsDataset(df)
    /\ last.args.vendor = NoVendor
    /\ ~Raised(last.error)
    /\ Len(last.value.vendors_affected) = 2
    /\ last.value.total_drawdown_events = 2


\* C22: get_drawdown_periods never fails on a loaded dataset: it returns
\* exactly the rows with drawdown_flag == 1, narrowed to the vendor when one
\* is given, and an empty result, not an error, when nothing matches, a
\* vendor that is not in the dataset included.
C22_DrawdownPeriodsTotal ==
    (last.op = "get_drawdown_periods" /\ IsDataset(df)) =>
        /\ ~Raised(last.error)
        /\ last.value = C20_Flagged

\* the drawdown rows of a vendor that is not in a dataset with drawdowns
C22_Witness ==
    /\ last.op = "get_drawdown_periods"
    /\ IsDataset(df)
    /\ last.args.vendor # NoVendor
    /\ \A i \in 1..Len(df.rows) : df.rows[i].vendor # last.args.vendor
    /\ \E i \in 1..Len(df.rows) : df.rows[i].drawdown_flag = 1
    /\ ~Raised(last.error)
    /\ last.value = <<>>

\* C23: execute on a vendor_metrics query without vendors returns the
\* unsuccessful result "No vendor specified": nothing is raised or caught
\* and no metrics are computed (no lazy load happens); with vendors, the
\* data of a successful result has one entry per extracted vendor, keyed
\* by the vendor's name.
C23_VendorMetricsDispatch ==
    [][(/\ last'.op = "execute"
        /\ last'.args.intent = QueryIntent.VENDOR_METRICS)
       => /\ last'.args.vendors = <<>> =>
                /\ ~Raised(last'.error)
                /\ ~Raised(last'.caught)
                /\ last'.value = QueryResult(QueryIntent.VENDOR_METRICS, Null, FALSE,
                                             "No vendor specified")
                /\ df' = df
          /\ (/\ last'.args.vendors # <<>>
              /\ ~Raised(last'.error)
              /\ last'.value.success) =>
                /\ DOMAIN last'.value.data = Range(last'.args.vendors)
                /\ \A v \in Range(last'.args.vendors) :
                      last'.value.data[v].vendor = v]_vars

\* a vendor_metrics query that names two vendors was answered
C23_Witness ==
    /\ last.op = "execute"
    /\ last.args.intent = QueryIntent.VENDOR_METRICS
    /\ Len(last.args.vendors) = 2
    /\ ~Raised(last.error)
    /\ last.value.success
    /\ Cardinality(DOMAIN last.value.data) = 2


\* RegexQueryParser.parse has returned a ParsedQuery
RegexParsed == last.op = "parse" /\ ~Raised(last.error)

\* what the query text matches: a comparison rule, a listing rule
C24_Comparison ==
    \/ AnyWord(last.args.query,
               {"compare", "rank", "ranking", "best", "worst", "top", "bottom"})
    \/ WordThenWord(last.args.query, {"which"}, {"better", "best", "worst"})

C24_Listing ==
    \/ WordThenWord(last.args.query, {"list", "show", "what"}, {"vendor", "vendors"})
    \/ WordThenWord(last.args.query, {"vendor", "vendors"}, {"available", "list"})

C24_Drawdown == AnyWord(last.args.query, {"drawdown", "stress", "crisis"})

C24_Period ==
    \/ MonthThenDigits(last.args.query)
    \/ \E i \in 1..Len(last.args.query) : last.args.query[i].t = "iso"
    \/ PeriodWords(last.args.query)

C24_Metrics ==
    AnyWord(last.args.query, {"metric", "metrics", "signal", "performance", "stat",
                              "stats", "statistic", "statistics"})

\* C24: the regex parser classifies by the first rule that matches, in the
\* order comparison, listing, drawdown, period, vendor metrics, and unknown
\* when none matches: a query that matches a comparison rule is
\* compare_vendors whatever else it matches.
C24_FirstRuleWins ==
    RegexParsed =>
        /\ C24_Comparison => last.value.intent = QueryIntent.COMPARE_VENDORS
        /\ (~C24_Comparison /\ C24_Listing) =>
              last.value.intent = QueryIntent.LIST_VENDORS
        /\ (~C24_Comparison /\ ~C24_Listing /\ C24_Drawdown) =>
              last.value.intent = QueryIntent.DRAWDOWN_ANALYSIS
        /\ (~C24_Comparison /\ ~C24_Listing /\ ~C24_Drawdown /\ C24_Period) =>
              last.value.intent = QueryIntent.PERIOD_METRICS
        /\ (/\ ~C24_Comparison /\ ~C24_Listing /\ ~C24_Drawdown /\ ~C24_Period
            /\ C24_Metrics) =>
              last.value.intent \in {QueryIntent.VENDOR_METRICS,
                                     QueryIntent.PERIOD_METRICS}
        /\ (/\ ~C24_Comparison /\ ~C24_Listing /\ ~C24_Drawdown /\ ~C24_Period
            /\ ~C24_Metrics) =>
              last.value.intent = QueryIntent.UNKNOWN

\* a query such as "list best vendors", which matches a comparison rule
\* and a listing rule
C24_Witness ==
    /\ RegexParsed
    /\ C24_Comparison
    /\ C24_Listing
    /\ last.value.intent = QueryIntent.COMPARE_VENDORS

\* the places of the query text where a month name is followed by a year
C25_MonthYear ==
    {i \in 1..(Len(last.args.query) - 1) :
        /\ HasWord(last.args.query, i, DOMAIN MONTHS)
        /\ last.args.query[i + 1].t = "num4"}

\* C25: when the regex parser recognises "Month YYYY" and the text holds no
\* ISO date, start_date is the first day and end_date the last calendar day
\* of that month of that year, the 29th for February of a leap year.
C25_MonthBounds ==
    (/\ RegexParsed
     /\ \A i \in 1..Len(last.args.query) : last.args.query[i].t # "iso"
     /\ C25_MonthYear # {}) =>
        LET i == SetMin(C25_MonthYear)
            year == last.args.query[i + 1].y
            month == MONTHS[last.args.query[i].w]
        IN /\ last.value.start_date = Ord(year, month, 1)
           /\ last.value.end_date = Ord(year, month, DaysInMonth(year, month))

C26_Echo ==
    <<IF last.args.start # NoDate THEN last.args.start ELSE DateMin,
      IF last.args.end # NoDate THEN last.args.end ELSE DateMax>>

\* C26: the start_date and end_date that get_period_metrics reports are
\* the earliest and latest date of the rows in the slice when there are
\* any, and the requested bounds (date.min / date.max for a missing bound)
\* when the slice is empty.
C26_ReportedPeriod ==
    (last.op = "get_period_metrics" /\ IsDataset(df)) =>
        /\ ~Raised(last.error)
        /\ C4_Selected # <<>> =>
              /\ last.value.start_date = SetMin(Range(Column(C4_Selected, "date")))
              /\ last.value.end_date = SetMax(Range(Column(C4_Selected, "date")))
        /\ C4_Selected = <<>> =>
              <<last.value.start_date, last.value.end_date>> = C26_Echo

\* C27: a load that fails leaves the dataset unchanged: after a failed
\* load_data_from_upload, load_data_from_bytes or reload the stored table is
\* the one that was installed before the call.
C27_FailedLoadKeepsDataset ==
    [][(last'.op \in LoadOps /\ Raised(last'.error)) => df' = df]_vars

\* the dataset built from the bytes of upload u alone
C28_Own(u) == Table("full", SortRows(Tail(up[u].source)))

\* C28: uploads that interleave at their chunk reads stay apart: each
\* accumulates its own chunks only, each successful one returns
\* total_records, vendors and file_size_bytes of the dataset built from its
\* own bytes, the stored dataset changes at load steps only, and once both
\* are complete it is the dataset of one of them, never a mixture.
C28_UploadsIsolated ==
    [][\A u \in Uploads :
        /\ up'[u].pc = "reading" =>
              up'[u].contents = SubSeq(up'[u].source, 1, up'[u].pos)
        /\ (up[u].pc = "reading" /\ up'[u].pc = "done") =>
              /\ df' = C28_Own(u)
              /\ up'[u].result.total_records = Len(C28_Own(u).rows)
              /\ up'[u].result.vendors = Unique(Column(C28_Own(u).rows, "vendor"))
              /\ up'[u].result.file_size_bytes = Len(up[u].source)
        /\ df' # df =>
              \E w \in Uploads :
                  /\ up[w].pc = "reading"
                  /\ up[w].pos = Len(up[w].source)
                  /\ up'[w].pc \in {"done", "failed"}
        /\ (\A w \in Uploads : up'[w].pc = "done") =>
              \E w \in Uploads : df' = Table("full", SortRows(Tail(up'[w].source)))]_vars

\* two uploads of different payloads are complete; the stored dataset is
\* the second one's, and the first one's result describes its own payload
C28_Witness ==
    /\ up[1].pc = "done" /\ up[2].pc = "done"
    /\ up[1].source # up[2].source
    /\ df = C28_Own(2)
    /\ df # C28_Own(1)
    /\ up[1].result.total_records = Len(C28_Own(1).rows)
    /\ up[1].result.total_records > 0 /\ Len(df.rows) > 0

\* C30: the headline fields of get_comparative_metrics agree with its
\* rankings, ties included: best_avg_signal has rank 1 in
\* ranking_by_avg_signal, a strictly higher mean signal has a strictly
\* smaller rank, and when some volatility is not null no ranked vendor has
\* a higher volatility than highest_signal_volatility.
C30_HeadlinesAgree ==
    Compared =>
        /\ last.value.ranking_by_avg_signal[last.value.best_avg_signal] = 1
        /\ \A v, w \in Range(StoredVendors) :
              StoredMetrics(v).signal_strength_mean > StoredMetrics(w).signal_strength_mean
              => last.value.ranking_by_avg_signal[v] < last.value.ranking_by_avg_signal[w]
        /\ Rated # {} =>
              \A v \in DOMAIN last.value.ranking_by_stability :
                  StoredMetrics(v).signal_volatility[1]
                     <= StoredMetrics(last.value.highest_signal_volatility)
                           .signal_volatility[1]

\* two vendors share the highest mean signal; the one named best has rank 1
\* and the vendor named most volatile is a ranked one
C30_Witness ==
    /\ Compared
    /\ \E w \in Range(StoredVendors) :
        /\ w # last.value.best_avg_signal
        /\ StoredMetrics(w).signal_strength_mean
              = StoredMetrics(last.value.best_avg_signal).signal_strength_mean
        /\ last.value.ranking_by_avg_signal[w] = 2
    /\ last.value.ranking_by_avg_signal[last.value.best_avg_signal] = 1
    /\ last.value.highest_signal_volatility \in DOMAIN last.value.ranking_by_stability


====
